---------------------------- MODULE Spec2Model ----------------------------
(***************************************************************************)
(* A model of linesqueak's Editor (src/editor.go, lines 1-753): the        *)
(* Line() loop with its key decoder, the edit operations on Buffer/Pos,    *)
(* the ring-backed history, the completion sub-loop and refreshLine.       *)
(*                                                                         *)
(* Strings are sequences of code points (naturals).  One step of the       *)
(* model is everything Line() does between two blocking reads of e.In:     *)
(* the read itself, the dispatch, the edit function and its output.        *)
(***************************************************************************)
EXTENDS Integers, Sequences, FiniteSets, TLC

(***************************************************************************)
(* Bounds of the model.                                                    *)
(***************************************************************************)
\* longest buffer the input is allowed to build
MaxLen == 3
\* most lines the caller adds to the history ring
MaxHist == 2
\* most trigger keys pressed in one completion session
MaxTabs == 4

(***************************************************************************)
(* Key codes (src/editor.go, const block) and the bytes of the escape      *)
(* sequences (the case labels of Line()).                                  *)
(***************************************************************************)
ctrlA == 1
ctrlB == 2
ctrlC == 3
ctrlD == 4
ctrlE == 5
ctrlF == 6
ctrlH == 8
tab == 9
ctrlK == 11
ctrlL == 12
enter == 13
ctrlN == 14
ctrlP == 16
ctrlT == 20
ctrlU == 21
ctrlW == 23
esc == 27
space == 32
backspace == 127
chLBracket == 91
chO == 79
chA == 65
chB == 66
chC == 67
chD == 68
chF == 70
chH == 72
chTilde == 126
ch3 == 51
DefaultCols == 80
DefaultRows == 24
TabWidth == 4
White == 37

\* "no rune": the value of key and pending when nothing was read / is peeked
NoKey == 0 - 1

\* a digit of '0','1','2','4'..'9' (here '1') for the ESC [ <digit> <byte> form
OtherDigits == {49}
\* a byte that no escape state recognises ('a')
Unrecognized == {97}
\* a byte no case matches after ESC, ESC O, ESC [ 3 and ESC [ <digit>, though
\* it ends a sequence after ESC [
Misplaced == {chC}

\* the runes Line() handles in a named case of its switch
ControlKeys ==
  {ctrlA, ctrlB, ctrlC, ctrlD, ctrlE, ctrlF, ctrlH, tab, ctrlK, ctrlL, enter, ctrlN,
   ctrlP, ctrlT, ctrlU, ctrlW, esc, backspace}

\* the bytes that can follow ESC in the sequences Line() decodes, and the others
SeqBytes ==
  {chLBracket, chO, chA, chB, chC, chD, chF, chH, chTilde, ch3}
    \cup OtherDigits \cup Unrecognized

(***************************************************************************)
(* Pure helpers.                                                           *)
(***************************************************************************)
Min(a, b) == IF a < b THEN a ELSE b

Max(a, b) == IF a > b THEN a ELSE b

\* s[lo..hi) in Go slice notation (0-based, hi exclusive)
Slice(s, lo, hi) == SubSeq(s, lo + 1, hi)

\* func defaultWidth(r rune) int
defaultWidth(r) == IF r = tab THEN TabWidth ELSE 1

\* the `for _, r := range s { w += f(r) }` loops of refreshLine
RECURSIVE SumWidth(_)
SumWidth(s) == IF s = <<>> THEN 0 ELSE defaultWidth(Head(s)) + SumWidth(Tail(s))

\* the decimal digits fmt.Sprintf("%d") prints for n >= 0, as code points
RECURSIVE Digits(_)
Digits(n) == IF n < 10 THEN <<48 + n>> ELSE Digits(n \div 10) \o <<48 + (n % 10)>>


(***************************************************************************)
(* State.                                                                  *)
(*   ed         the Editor's mutable fields: Buffer, Pos, OldPos, MaxRows, *)
(*              Cols, Rows, the History ring (hist: its values in ring     *)
(*              order, hcur: the index e.History points at, 0 = nil), and  *)
(*              werr, the sticky error of the bufio.Writer e.Out           *)
(*   cfg        what the run is given and never changes: e.Prompt, whether *)
(*              e.Complete and e.Hint are set, the initial e.Cols, and the  *)
(*              environment: the literal runes the terminal types (lits),  *)
(*              the control keys it sends (keys), the bytes it sends       *)
(*              after ESC (seq),                                           *)
(*              the lines the caller adds to the history (adds), whether   *)
(*              the underlying writer can fail (flaky)                     *)
(*   pc         where Line() is blocked: "Idle" (not in Line), "Normal"    *)
(*              (the read at the top of the loop), "EscSeen", "CSISeen",   *)
(*              "CSI3", "CSIDigit", "SS3Seen" (the nested reads), and      *)
(*              "Complete" (the Peek of completeLine)                      *)
(*   cs, ci     completeLine's candidate ring and the index cs points at   *)
(*   pending    the byte Peek returned and no ReadRune has consumed yet    *)
(*   key, cmd   the rune the last step read and the operation it ran       *)
(*   out        what the last step wrote to e.Out, token by token          *)
(*   typed      history variable: the runes read in this Line() call while *)
(*              every one of them went to the default case (a literal      *)
(*              insert); Mixed once any other rune was read                *)
(*   retText, retErr, ending                                               *)
(*              what the last Line() call returned and by which path       *)
(*   ids        history variable: for each element of the ring, in the     *)
(*              order of hist, where it comes from: 0 for the element      *)
(*              created holding "", k for the one the k-th storing         *)
(*              HistoryAdd linked in                                       *)
(*   nav        history variable: some HistoryPrev/HistoryNext has run     *)
(*   last       history variable: whether the last command of this Line()  *)
(*              call (bytes that only continue an escape sequence do not   *)
(*              count) was HistoryPrev, HistoryNext or another one, and    *)
(*              the buffer a history command replaced                      *)
(*   sess       history variable: while completeLine's loop runs, the      *)
(*              buffer and cursor it was entered with and the number of    *)
(*              trigger keys read so far (the one that entered it          *)
(*              included); NoSess otherwise                                *)
(*   seq        history variable: the bytes read so far of an escape       *)
(*              sequence no command was run for, the ESC included; <<>>    *)
(*              once a step ran a command or read at the top of the loop   *)
(*   twin       history variable, kept in the configuration with a Hint    *)
(*              callback: an Editor that differs from ed in e.Hint == nil  *)
(*              only, on which every step runs the same method as on ed,   *)
(*              with a writer that never fails                             *)
(***************************************************************************)
VARIABLES ed, cfg, pc, cs, ci, pending, key, cmd, out, typed,
          retText, retErr, ending, ids, nav, last, sess, seq, twin

vars == <<ed, cfg, pc, cs, ci, pending, key, cmd, out, typed,
          retText, retErr, ending, ids, nav, last, sess, seq, twin>>

\* the history variables about the ring
ringVars == <<ids, nav, last>>

cfgVars == <<cfg>>

\* e.Prompt
Prompt == cfg.prompt

\* e.Complete != nil
completeOn == cfg.complete

\* e.Hint != nil
hintOn == ed.Hint

\* the outcomes of a Flush of e.Out: TRUE = the underlying writer accepts the bytes
WriteFates == IF cfg.flaky THEN BOOLEAN ELSE {TRUE}

retVars == <<retText, retErr, ending>>

Buffer == ed.Buffer

Pos == ed.Pos

OldPos == ed.OldPos

MaxRows == ed.MaxRows

Cols == ed.Cols

Rows == ed.Rows

\* the value of typed once a rune other than a literal was read
Mixed == <<NoKey>>

\* tokens of the output stream
Tok(op, n, s) == [op |-> op, n |-> n, s |-> s]

TBell == Tok("bell", 0, <<>>)

TFlush == Tok("flush", 0, <<>>)

\* the value of last after command c found buffer b
Was(c, b) ==
  IF c \in {"HistoryPrev", "HistoryNext"} THEN [cmd |-> c, buf |-> b]
  ELSE [cmd |-> "Other", buf |-> <<>>]

\* the value of sess outside completeLine's loop
NoSess == [buf |-> <<>>, pos |-> 0, presses |-> 0]

\* the result of an Editor method: the editor afterwards, what it wrote, its error
Res(e, o, err) == [e |-> e, out |-> o, err |-> err]

(***************************************************************************)
(* Output: e.Out is a bufio.Writer.  A WriteString of these short strings  *)
(* only fails when the writer already carries an error; Flush hands the    *)
(* bytes to the underlying writer, which may fail (wok = FALSE) and leaves *)
(* the error in the writer.                                                *)
(***************************************************************************)
\* errWriter.writeString over a list of strings followed by errWriter.flush
WriteFlush(e, toks, wok) ==
  IF e.werr THEN Res(e, <<>>, "write error")
  ELSE IF wok THEN Res(e, toks \o <<TFlush>>, "nil")
  ELSE Res([e EXCEPT !.werr = TRUE], toks, "write error")

\* func (e *Editor) beep() error
beep(e, wok) == WriteFlush(e, <<TBell>>, wok)

\* what the configured Hint callback answers for buffer s: a hint for "a" only
HintMessage(s) == IF s = <<97>> THEN <<98>> ELSE <<>>

\* func (e *Editor) hint() string, for a callback that sets neither Color nor Bold
hint(e) ==
  IF ~e.Hint THEN <<>>
  ELSE IF HintMessage(e.Buffer) = <<>> THEN <<>>
  ELSE <<esc, chLBracket>> \o Digits(0) \o <<59>> \o Digits(White) \o <<59, 52, 57, 109>>
       \o HintMessage(e.Buffer) \o <<esc, chLBracket, 48, 109>>

\* the "clear line, go up" pairs of refreshLine's loop for i := 1; i < oldRows; i++
RECURSIVE KillUp(_)
KillUp(n) ==
  IF n <= 0 THEN <<>>
  ELSE <<Tok("killLine", 0, <<>>), Tok("up", 1, <<>>)>> \o KillUp(n - 1)

\* mutant: a position whose column is not reduced modulo the terminal width
posUnwrapped(w, cols) == [cols |-> w, rows |-> w \div cols]

\* refreshLine's pos{cols: w % e.Cols, rows: w / e.Cols}
pos(w, cols) == [cols |-> w % cols, rows |-> w \div cols]

\* mutant: refreshLine appending the hint's message to the buffer
refreshLineHintInBuffer(e, wok) ==
  LET h == hint(e)
      n == Len(e.Buffer)
      pw == SumWidth(Prompt)
      bw == SumWidth(e.Buffer)
      cw == SumWidth(Slice(e.Buffer, 0, Min(e.Pos, n)))
      ocw == SumWidth(Slice(e.Buffer, 0, Min(e.OldPos, n)))
      hw == SumWidth(h)
      epRows == pos(pw + bw + hw, e.Cols).rows
      cpCols == pos(pw + cw, e.Cols).cols
      cpRows == pos(pw + cw, e.Cols).rows
      ocpRows == pos(pw + ocw, e.Cols).rows
      oldRows == e.MaxRows
      maxRows1 == Max(e.MaxRows, epRows)
      wrap == e.Pos = n /\ cpCols = 0
      cpRows2 == IF wrap THEN cpRows + 1 ELSE cpRows
      epRows2 == IF wrap THEN epRows + 1 ELSE epRows
      maxRows2 == IF wrap THEN Max(maxRows1, epRows2) ELSE maxRows1
      toks == (IF oldRows - ocpRows > 0
                 THEN <<Tok("down", oldRows - ocpRows, <<>>)>> ELSE <<>>)
              \o KillUp(oldRows - 1)
              \o <<Tok("cr", 0, <<>>), Tok("prompt", 0, Prompt),
                   Tok("buffer", 0, e.Buffer), Tok("hint", 0, h),
                   Tok("eraseRight", 0, <<>>)>>
              \o (IF wrap THEN <<Tok("newline", 0, <<>>)>> ELSE <<>>)
              \o (IF epRows2 - cpRows2 > 0
                    THEN <<Tok("up", epRows2 - cpRows2, <<>>)>> ELSE <<>>)
              \o <<Tok("cr", 0, <<>>)>>
              \o (IF cpCols > 0 THEN <<Tok("right", cpCols, <<>>)>> ELSE <<>>)
      e2 == [e EXCEPT !.MaxRows = maxRows2, !.OldPos = e.Pos,
                      !.Buffer = IF e.Hint THEN e.Buffer \o HintMessage(e.Buffer)
                                 ELSE e.Buffer]
  IN  WriteFlush(e2, toks, wok)

\* func (e *Editor) refreshLine() error
refreshLine(e, wok) ==
  LET h == hint(e)
      n == Len(e.Buffer)
      pw == SumWidth(Prompt)
      bw == SumWidth(e.Buffer)
      cw == SumWidth(Slice(e.Buffer, 0, Min(e.Pos, n)))
      ocw == SumWidth(Slice(e.Buffer, 0, Min(e.OldPos, n)))
      hw == SumWidth(h)
      epRows == pos(pw + bw + hw, e.Cols).rows
      cpCols == pos(pw + cw, e.Cols).cols
      cpRows == pos(pw + cw, e.Cols).rows
      ocpRows == pos(pw + ocw, e.Cols).rows
      oldRows == e.MaxRows
      maxRows1 == Max(e.MaxRows, epRows)
      wrap == e.Pos = n /\ cpCols = 0
      cpRows2 == IF wrap THEN cpRows + 1 ELSE cpRows
      epRows2 == IF wrap THEN epRows + 1 ELSE epRows
      maxRows2 == IF wrap THEN Max(maxRows1, epRows2) ELSE maxRows1
      toks == (IF oldRows - ocpRows > 0
                 THEN <<Tok("down", oldRows - ocpRows, <<>>)>> ELSE <<>>)
              \o KillUp(oldRows - 1)
              \o <<Tok("cr", 0, <<>>), Tok("prompt", 0, Prompt),
                   Tok("buffer", 0, e.Buffer), Tok("hint", 0, h),
                   Tok("eraseRight", 0, <<>>)>>
              \o (IF wrap THEN <<Tok("newline", 0, <<>>)>> ELSE <<>>)
              \o (IF epRows2 - cpRows2 > 0
                    THEN <<Tok("up", epRows2 - cpRows2, <<>>)>> ELSE <<>>)
              \o <<Tok("cr", 0, <<>>)>>
              \o (IF cpCols > 0 THEN <<Tok("right", cpCols, <<>>)>> ELSE <<>>)
      e2 == [e EXCEPT !.MaxRows = maxRows2, !.OldPos = e.Pos]
  IN  WriteFlush(e2, toks, wok)

\* func (e *Editor) refreshLineString(s string) error
refreshLineString(e, s, wok) ==
  LET r == refreshLine([e EXCEPT !.Buffer = s, !.Pos = Len(s)], wok)
  IN  IF r.err # "nil" THEN r
      ELSE Res([r.e EXCEPT !.Buffer = e.Buffer, !.Pos = e.Pos], r.out, "nil")

\* func (e *Editor) clearScreen() error: a WriteString with no flush
clearScreen(e) ==
  IF e.werr THEN Res(e, <<>>, "write error")
  ELSE Res(e, <<Tok("clearScreen", 0, <<>>)>>, "nil")

(***************************************************************************)
(* The history ring (container/ring).  hist lists the values starting at   *)
(* some element and following Next(); hcur is the element e.History points *)
(* at.  A nil ring is hist = <<>>, hcur = 0, and has Len() = 0.            *)
(***************************************************************************)
RingPrev(i, n) == IF i = 1 THEN n ELSE i - 1

RingNext(i, n) == IF i = n THEN 1 ELSE i + 1

\* s with x inserted so that it becomes element i (1-based)
InsertAt(s, i, x) == SubSeq(s, 1, i - 1) \o <<x>> \o SubSeq(s, i, Len(s))

\* `if e.History == nil { e.History = ring.New(1); e.History.Value = "" }`
\* (and the same under `e.History.Len() == 0` in editReset)
ensureHistory(e) ==
  IF e.hcur = 0 THEN [e EXCEPT !.hist = <<(<<>>)>>, !.hcur = 1] ELSE e

\* func (e *Editor) HistoryAdd(l string): the new element is linked in between
\* e.History.Prev() and e.History, which e.History keeps pointing at
HistoryAdd(e, l) ==
  LET e1 == ensureHistory(e)
  IN  IF e1.hist[e1.hcur] = l THEN e1
      ELSE [e1 EXCEPT !.hist = InsertAt(e1.hist, e1.hcur, l), !.hcur = e1.hcur + 1]

(***************************************************************************)
(* The edit functions.  Each takes the editor and the fate of the flush it *)
(* performs, and returns the editor afterwards, its output and its error.  *)
(***************************************************************************)
\* mutant: editReset keeping the rows and the previous cursor of the last call
editResetKeepsRows(e, wok) ==
  LET e1 == ensureHistory(e)
      e2 == [e1 EXCEPT !.Buffer = <<>>, !.Pos = 0,
                       !.Rows = IF e1.Rows = 0 THEN DefaultRows ELSE e1.Rows,
                       !.Cols = IF e1.Cols = 0 THEN DefaultCols ELSE e1.Cols]
  IN  refreshLine(e2, wok)

\* func (e *Editor) editReset() error
editReset(e, wok) ==
  LET e1 == ensureHistory(e)
      e2 == [e1 EXCEPT !.Buffer = <<>>, !.OldPos = 0, !.Pos = 0, !.MaxRows = 0,
                       !.Rows = IF e1.Rows = 0 THEN DefaultRows ELSE e1.Rows,
                       !.Cols = IF e1.Cols = 0 THEN DefaultCols ELSE e1.Cols]
  IN  refreshLine(e2, wok)

\* an edit function's `e.beep(); return nil`: the alert's error is dropped
beepNil(e, wok) == Res(beep(e, wok).e, beep(e, wok).out, "nil")

\* the SliceTricks delete: Buffer[:p+copy(Buffer[p:], Buffer[p+1:])]
deleteAt(b, p) == Slice(b, 0, p) \o Slice(b, p + 1, Len(b))

\* mutant: editBackspace removing the code point under the moved cursor's right
editBackspaceAtCursor(e, wok) ==
  IF e.Pos = 0 THEN beepNil(e, wok)
  ELSE refreshLine([e EXCEPT !.Pos = e.Pos - 1,
                             !.Buffer = deleteAt(e.Buffer, e.Pos)], wok)

\* func (e *Editor) editBackspace() error
editBackspace(e, wok) ==
  IF e.Pos = 0 THEN beepNil(e, wok)
  ELSE refreshLine([e EXCEPT !.Pos = e.Pos - 1,
                             !.Buffer = deleteAt(e.Buffer, e.Pos - 1)], wok)

\* mutant: editDelete with its boundary test off by one
editDeleteOffByOne(e, wok) ==
  IF e.Pos = Len(e.Buffer) - 1 THEN beepNil(e, wok)
  ELSE refreshLine([e EXCEPT !.Buffer = deleteAt(e.Buffer, e.Pos)], wok)

\* func (e *Editor) editDelete() error
editDelete(e, wok) ==
  IF e.Pos = Len(e.Buffer) THEN beepNil(e, wok)
  ELSE refreshLine([e EXCEPT !.Buffer = deleteAt(e.Buffer, e.Pos)], wok)

\* func (e *Editor) editMoveLeft() error
editMoveLeft(e, wok) ==
  IF e.Pos = 0 THEN beepNil(e, wok)
  ELSE refreshLine([e EXCEPT !.Pos = e.Pos - 1], wok)

\* mutant: editMoveRight without its check of the right boundary
editMoveRightUnchecked(e, wok) == refreshLine([e EXCEPT !.Pos = e.Pos + 1], wok)

\* func (e *Editor) editMoveRight() error
editMoveRight(e, wok) ==
  IF e.Pos = Len(e.Buffer) THEN beepNil(e, wok)
  ELSE refreshLine([e EXCEPT !.Pos = e.Pos + 1], wok)

\* mutant: editMoveHome redrawing instead of alerting when already at 0
editMoveHomeRedraws(e, wok) == refreshLine([e EXCEPT !.Pos = 0], wok)

\* func (e *Editor) editMoveHome() error
editMoveHome(e, wok) ==
  IF e.Pos = 0 THEN beepNil(e, wok)
  ELSE refreshLine([e EXCEPT !.Pos = 0], wok)

\* func (e *Editor) editMoveEnd() error
editMoveEnd(e, wok) ==
  IF e.Pos = Len(e.Buffer) THEN beepNil(e, wok)
  ELSE refreshLine([e EXCEPT !.Pos = Len(e.Buffer)], wok)

\* func (e *Editor) editKillForward() error
editKillForward(e, wok) ==
  refreshLine([e EXCEPT !.Buffer = Slice(e.Buffer, 0, e.Pos)], wok)

\* mutant: editInsert appending at the end instead of splicing at the cursor
editInsertAtEnd(e, r, wok) ==
  refreshLine([e EXCEPT !.Buffer = e.Buffer \o <<r>>, !.Pos = e.Pos + 1], wok)

\* func (e *Editor) editInsert(r rune) error
editInsert(e, r, wok) ==
  refreshLine([e EXCEPT !.Buffer = Slice(e.Buffer, 0, e.Pos) \o <<r>>
                                     \o Slice(e.Buffer, e.Pos, Len(e.Buffer)),
                        !.Pos = e.Pos + 1], wok)

\* the loop of editDeletePrevWord, from index i downwards with flag w: the p found
RECURSIVE wordStart(_, _, _)
wordStart(b, i, w) ==
  IF i < 0 THEN 0
  ELSE IF b[i + 1] # space THEN wordStart(b, i - 1, TRUE)
  ELSE IF ~w THEN wordStart(b, i - 1, w)
  ELSE i + 1

\* mutant: editDeletePrevWord keeping the code points right of the cursor
editDeletePrevWordKeepsTail(e, wok) ==
  LET p == wordStart(e.Buffer, e.Pos - 1, FALSE)
  IN  refreshLine([e EXCEPT !.Buffer = Slice(e.Buffer, 0, p)
                                         \o Slice(e.Buffer, e.Pos, Len(e.Buffer)),
                            !.Pos = p], wok)

\* func (e *Editor) editDeletePrevWord() error
editDeletePrevWord(e, wok) ==
  LET p == wordStart(e.Buffer, e.Pos - 1, FALSE)
  IN  refreshLine([e EXCEPT !.Buffer = Slice(e.Buffer, 0, p), !.Pos = p], wok)

\* the value a step leaves behind when it indexes a slice out of range: Go panics
Panic(e) == Res(e, <<>>, "panic")

\* func (e *Editor) editSwap() error
editSwap(e, wok) ==
  LET n == Len(e.Buffer)
      p == IF e.Pos = n THEN n - 1 ELSE e.Pos
  IN  IF p = 0 THEN beepNil(e, wok)
      ELSE IF p < 1 \/ p >= n THEN Panic(e)
      ELSE refreshLine([e EXCEPT !.Buffer = [e.Buffer EXCEPT ![p] = e.Buffer[p + 1],
                                                             ![p + 1] = e.Buffer[p]],
                                 !.Pos = IF e.Pos < n THEN e.Pos + 1 ELSE e.Pos], wok)

\* mutant: editHistoryPrev moving without writing the buffer into the slot it leaves
editHistoryPrevNoSave(e, wok) ==
  IF e.hcur = 0 THEN beepNil(e, wok)
  ELSE LET c == RingPrev(e.hcur, Len(e.hist))
           r == refreshLine([e EXCEPT !.hcur = c, !.Buffer = e.hist[c],
                                      !.Pos = Len(e.hist[c])], wok)
       IN  Res(r.e, r.out, "nil")

\* func (e *Editor) editHistoryPrev() error: refreshLine's error is dropped
editHistoryPrev(e, wok) ==
  IF e.hcur = 0 THEN beepNil(e, wok)
  ELSE LET h1 == [e.hist EXCEPT ![e.hcur] = e.Buffer]
           c == RingPrev(e.hcur, Len(h1))
           r == refreshLine([e EXCEPT !.hist = h1, !.hcur = c, !.Buffer = h1[c],
                                      !.Pos = Len(h1[c])], wok)
       IN  Res(r.e, r.out, "nil")

\* mutant: editHistoryNext moving without writing the buffer into the slot it leaves
editHistoryNextNoSave(e, wok) ==
  IF e.hcur = 0 THEN beepNil(e, wok)
  ELSE LET c == RingNext(e.hcur, Len(e.hist))
           r == refreshLine([e EXCEPT !.hcur = c, !.Buffer = e.hist[c],
                                      !.Pos = Len(e.hist[c])], wok)
       IN  Res(r.e, r.out, "nil")

\* func (e *Editor) editHistoryNext() error: refreshLine's error is dropped
editHistoryNext(e, wok) ==
  IF e.hcur = 0 THEN beepNil(e, wok)
  ELSE LET h1 == [e.hist EXCEPT ![e.hcur] = e.Buffer]
           c == RingNext(e.hcur, Len(h1))
           r == refreshLine([e EXCEPT !.hist = h1, !.hcur = c, !.Buffer = h1[c],
                                      !.Pos = Len(h1[c])], wok)
       IN  Res(r.e, r.out, "nil")

\* Ctrl-L in Line(): clearScreen, then refreshLine
clearAndRefresh(e, wok) ==
  LET c == clearScreen(e)
      r == refreshLine(c.e, wok)
  IN  IF c.err # "nil" THEN c ELSE Res(r.e, c.out \o r.out, r.err)

\* what the configured Complete callback answers for buffer s: "a" and "aa"
\* appended, as far as the result stays within the bound
Complete(s) ==
  IF Len(s) + 2 <= MaxLen THEN <<s \o <<97>>, s \o <<97, 97>>>>
  ELSE IF Len(s) + 1 <= MaxLen THEN <<s \o <<97>>>>
  ELSE <<>>

(***************************************************************************)
(* Initial state: an Editor literal with In, Out and Prompt set, as the    *)
(* package's users build it; the optional callbacks set or not; the        *)
(* terminal width left 0 (Line() then assumes 80) or set.  Each            *)
(* configuration comes with the environment it is run in; the prompt is    *)
(* "> " or left empty.                                                     *)
(***************************************************************************)
Configs ==
  { \* editing: the terminal types 'a' and ' ' and every key
    [prompt |-> <<62, space>>, complete |-> TRUE, hint |-> FALSE, cols |-> 0,
     lits |-> {97, space}, keys |-> ControlKeys, seq |-> SeqBytes,
     adds |-> {}, flaky |-> FALSE],
    \* history: the caller adds "a" between Line() calls; the terminal types
    \* 'a', browses with Ctrl-P/Ctrl-N and the arrow keys, and accepts
    [prompt |-> <<62, space>>, complete |-> TRUE, hint |-> FALSE, cols |-> 0,
     lits |-> {97}, keys |-> {ctrlP, ctrlN, enter, esc},
     seq |-> {chLBracket, chA, chB}, adds |-> {<<97>>}, flaky |-> FALSE],
    \* failing writes: every key, the writer may fail at any flush
    [prompt |-> <<62, space>>, complete |-> TRUE, hint |-> FALSE, cols |-> 0,
     lits |-> {97}, keys |-> ControlKeys, seq |-> SeqBytes,
     adds |-> {}, flaky |-> TRUE],
    \* no completion callback: tab is a literal
    [prompt |-> <<62, space>>, complete |-> FALSE, hint |-> FALSE, cols |-> 0,
     lits |-> {97}, keys |-> ControlKeys, seq |-> SeqBytes,
     adds |-> {}, flaky |-> FALSE],
    \* a Hint callback on a terminal 4 columns wide: the line wraps
    [prompt |-> <<62, space>>, complete |-> TRUE, hint |-> TRUE, cols |-> 4,
     lits |-> {97}, keys |-> ControlKeys, seq |-> {chLBracket, chA, chB, chC, chD},
     adds |-> {}, flaky |-> FALSE],
    \* wrapping: a terminal 4 columns wide and no callbacks
    [prompt |-> <<62, space>>, complete |-> FALSE, hint |-> FALSE, cols |-> 4,
     lits |-> {97}, keys |-> {ctrlA, ctrlB, ctrlE, ctrlU, backspace, enter},
     seq |-> {}, adds |-> {}, flaky |-> FALSE],
    \* narrow: no prompt, a terminal 2 columns wide, so that the line wraps
    [prompt |-> <<>>, complete |-> FALSE, hint |-> FALSE, cols |-> 2,
     lits |-> {97},
     keys |-> {ctrlA, ctrlB, ctrlE, ctrlF, ctrlK, ctrlU, backspace, enter},
     seq |-> {}, adds |-> {}, flaky |-> FALSE] }

Init ==
  \E c \in Configs :
    /\ ed = [Buffer |-> <<>>, Pos |-> 0, OldPos |-> 0, MaxRows |-> 0,
             Cols |-> c.cols, Rows |-> 0, hist |-> <<>>, hcur |-> 0, werr |-> FALSE,
             Hint |-> c.hint]
    /\ twin = [Buffer |-> <<>>, Pos |-> 0, OldPos |-> 0, MaxRows |-> 0,
               Cols |-> c.cols, Rows |-> 0, hist |-> <<>>, hcur |-> 0, werr |-> FALSE,
               Hint |-> FALSE]
    /\ cfg = c
    /\ pc = "Idle"
    /\ cs = <<>>
    /\ ci = 0
    /\ pending = NoKey
    /\ key = NoKey
    /\ cmd = "None"
    /\ typed = <<>>
    /\ out = <<>>
    /\ retText = <<>>
    /\ retErr = "none"
    /\ ending = "None"
    /\ ids = <<>>
    /\ nav = FALSE
    /\ last = Was("None", <<>>)
    /\ sess = NoSess
    /\ seq = <<>>

(***************************************************************************)
(* Line(): how a step ends.                                                *)
(***************************************************************************)
\* `return string(e.Buffer), err` (and the final `return string(e.Buffer), nil`)
Return(text, err, how) ==
  /\ pc' = "Idle"
  /\ retText' = text
  /\ retErr' = err
  /\ ending' = how
  /\ cs' = <<>>
  /\ ci' = 0

\* the pattern `if err := e.editX(); err != nil { return string(e.Buffer), err }`
\* followed by the next iteration of the loop; an out-of-range index panics.
\* r is the result of editX on ed, t its result on the twin editor
Finish(r, t, k, c) ==
  /\ ed' = r.e
  /\ out' = r.out
  /\ key' = k
  /\ cmd' = c
  /\ pending' = NoKey
  /\ typed' = IF c = "Insert" /\ k # tab /\ typed # Mixed THEN Append(typed, k) ELSE Mixed
  /\ nav' = (nav \/ c \in {"HistoryPrev", "HistoryNext"})
  /\ last' = Was(c, ed.Buffer)
  /\ sess' = NoSess
  /\ seq' = <<>>
  /\ twin' = IF cfg.hint THEN t.e ELSE twin
  /\ UNCHANGED <<cfgVars, ids>>
  /\ IF r.err = "panic" THEN pc' = "Panicked" /\ UNCHANGED <<cs, ci, retVars>>
     ELSE IF r.err # "nil" THEN Return(r.e.Buffer, r.err, "Error")
     ELSE pc' = "Normal" /\ cs' = <<>> /\ ci' = 0 /\ UNCHANGED retVars

\* a step that reads k, writes nothing and goes on reading at state p
Silent(k, c, p) ==
  /\ key' = k
  /\ cmd' = c
  /\ pc' = p
  /\ out' = <<>>
  /\ pending' = NoKey
  /\ typed' = Mixed
  /\ seq' = IF pc = "Normal" THEN <<k>> ELSE Append(seq, k)
  /\ UNCHANGED <<ed, cfgVars, cs, ci, retVars, ringVars, sess, twin>>

\* a step that reads k and makes Line() return without calling an edit function
Leave(k, c, err, how) ==
  /\ key' = k
  /\ cmd' = c
  /\ out' = <<>>
  /\ pending' = NoKey
  /\ Return(ed.Buffer, err, how)
  /\ sess' = NoSess
  /\ seq' = IF pc \in {"Normal", "Complete"} THEN <<>> ELSE seq
  /\ UNCHANGED <<ed, cfgVars, typed, ringVars, twin>>

\* e.In.ReadRune() at the top of the loop returns k: the byte Peek left
\* unconsumed if there is one, otherwise whatever the terminal sends
Reads(k) == pc = "Normal" /\ pending \in {NoKey, k} /\ k \in cfg.keys \cup cfg.lits

\* the input keeps the buffer within the model's bound
Room(e) == Len(e.Buffer) < MaxLen

(***************************************************************************)
(* The caller.                                                             *)
(***************************************************************************)
\* Line() is called: editReset, then the loop
CallLine ==
  /\ pc = "Idle"
  /\ \E wok \in WriteFates :
       LET r == editReset(ed, wok)
       IN  /\ ed' = r.e
           /\ out' = r.out
           /\ key' = NoKey
           /\ cmd' = "Start"
           /\ pending' = NoKey
           /\ typed' = <<>>
           /\ ids' = IF ed.hcur = 0 THEN <<0>> ELSE ids
           /\ last' = Was("Start", <<>>)
           /\ seq' = <<>>
           /\ twin' = IF cfg.hint THEN editReset(twin, TRUE).e ELSE twin
           /\ UNCHANGED <<cfgVars, nav, sess>>
           /\ IF r.err # "nil" THEN Return(r.e.Buffer, r.err, "Error")
              ELSE /\ pc' = "Normal"
                   /\ retText' = <<>>
                   /\ retErr' = "none"
                   /\ ending' = "None"
                   /\ UNCHANGED <<cs, ci>>

\* the caller adds a line to the history between two Line() calls
CallHistoryAdd ==
  /\ pc = "Idle"
  /\ \E l \in cfg.adds :
       /\ Len(HistoryAdd(ed, l).hist) <= MaxHist + 1
       /\ ed' = HistoryAdd(ed, l)
       /\ twin' = IF cfg.hint THEN HistoryAdd(twin, l) ELSE twin
       /\ ids' = LET i1 == IF ed.hcur = 0 THEN <<0>> ELSE ids
                 IN  IF Len(HistoryAdd(ed, l).hist) = Len(i1) THEN i1
                     ELSE InsertAt(i1, ensureHistory(ed).hcur, Len(i1))
  /\ key' = NoKey
  /\ cmd' = "HistoryAdd"
  /\ out' = <<>>
  /\ UNCHANGED <<cfgVars, pc, cs, ci, pending, typed, retVars, nav, last, sess, seq>>

(***************************************************************************)
(* The loop of Line(), state Normal: one action per case of the switch.    *)
(***************************************************************************)
\* mutant: a read that fails inside an escape sequence ending Line() like Enter
ReadFailAcceptsInEscape ==
  /\ pc \in {"Normal", "EscSeen", "CSISeen", "CSI3", "CSIDigit", "SS3Seen", "Complete"}
  /\ pending = NoKey
  /\ IF pc \in {"Normal", "Complete"}
       THEN \E err \in {"EOF", "read error"} : Leave(NoKey, "ReadFail", err, "Error")
       ELSE Leave(NoKey, "ReadFail", "nil", "Accepted")

\* a ReadRune (or the Peek of completeLine) fails: end of input or an I/O error
ReadFail ==
  /\ pc \in {"Normal", "EscSeen", "CSISeen", "CSI3", "CSIDigit", "SS3Seen", "Complete"}
  /\ pending = NoKey
  /\ \E err \in {"EOF", "read error"} : Leave(NoKey, "ReadFail", err, "Error")

\* a step that reads k and makes Line() return, but with an empty text
LeaveEmpty(k, c, err, how) ==
  /\ key' = k
  /\ cmd' = c
  /\ out' = <<>>
  /\ pending' = NoKey
  /\ Return(<<>>, err, how)
  /\ sess' = NoSess
  /\ seq' = <<>>
  /\ UNCHANGED <<ed, cfgVars, typed, ringVars, twin>>

\* mutant: Enter returning "" instead of the buffer
KeyEnterDropsText == Reads(enter) /\ LeaveEmpty(enter, "Accept", "nil", "Accepted")

\* case enter: break line, then `return string(e.Buffer), nil`
KeyEnter == Reads(enter) /\ Leave(enter, "Accept", "nil", "Accepted")

\* mutant: Ctrl-C returning "" instead of the partial buffer
KeyCtrlCDropsText == Reads(ctrlC) /\ LeaveEmpty(ctrlC, "Cancel", "try again", "Cancelled")

\* case ctrlC: return string(e.Buffer), errors.New("try again")
KeyCtrlC == Reads(ctrlC) /\ Leave(ctrlC, "Cancel", "try again", "Cancelled")

\* case backspace, ctrlH
KeyBackspace ==
  \E k \in {backspace, ctrlH}, wok \in WriteFates :
    Reads(k) /\ Finish(editBackspace(ed, wok),
                       editBackspace(twin, TRUE), k, "DeleteBackward")

\* mutant: Ctrl-D ending the stream whatever the buffer holds
KeyCtrlDAlwaysEOF == Reads(ctrlD) /\ Leave(ctrlD, "Abort", "EOF", "Aborted")

\* case ctrlD: io.EOF on an empty buffer, editDelete otherwise
KeyCtrlD ==
  /\ Reads(ctrlD)
  /\ IF Len(ed.Buffer) = 0 THEN Leave(ctrlD, "Abort", "EOF", "Aborted")
     ELSE \E wok \in WriteFates : Finish(editDelete(ed, wok),
                                         editDelete(twin, TRUE), ctrlD, "DeleteForward")

KeyCtrlT ==
  \E wok \in WriteFates : Reads(ctrlT) /\ Finish(editSwap(ed, wok),
                                                 editSwap(twin, TRUE), ctrlT, "Transpose")

KeyCtrlB ==
  \E wok \in WriteFates : Reads(ctrlB) /\ Finish(editMoveLeft(ed, wok),
                                                 editMoveLeft(twin, TRUE), ctrlB, "MoveLeft")

KeyCtrlF ==
  \E wok \in WriteFates : Reads(ctrlF) /\ Finish(editMoveRight(ed, wok),
                                                 editMoveRight(twin, TRUE), ctrlF, "MoveRight")

KeyCtrlP ==
  \E wok \in WriteFates :
    Reads(ctrlP) /\ Finish(editHistoryPrev(ed, wok),
                           editHistoryPrev(twin, TRUE), ctrlP, "HistoryPrev")

KeyCtrlN ==
  \E wok \in WriteFates :
    Reads(ctrlN) /\ Finish(editHistoryNext(ed, wok),
                           editHistoryNext(twin, TRUE), ctrlN, "HistoryNext")

KeyCtrlU ==
  \E wok \in WriteFates : Reads(ctrlU) /\ Finish(editReset(ed, wok),
                                                 editReset(twin, TRUE), ctrlU, "Reset")

KeyCtrlK ==
  \E wok \in WriteFates :
    Reads(ctrlK) /\ Finish(editKillForward(ed, wok),
                           editKillForward(twin, TRUE), ctrlK, "KillToEnd")

KeyCtrlA ==
  \E wok \in WriteFates : Reads(ctrlA) /\ Finish(editMoveHome(ed, wok),
                                                 editMoveHome(twin, TRUE), ctrlA, "MoveHome")

KeyCtrlE ==
  \E wok \in WriteFates : Reads(ctrlE) /\ Finish(editMoveEnd(ed, wok),
                                                 editMoveEnd(twin, TRUE), ctrlE, "MoveEnd")

KeyCtrlL ==
  \E wok \in WriteFates :
    Reads(ctrlL) /\ Finish(clearAndRefresh(ed, wok),
                           clearAndRefresh(twin, TRUE), ctrlL, "ClearScreen")

KeyCtrlW ==
  \E wok \in WriteFates :
    Reads(ctrlW) /\ Finish(editDeletePrevWord(ed, wok),
                           editDeletePrevWord(twin, TRUE), ctrlW, "DeletePrevWord")

\* the default case: any other rune is inserted
KeyInsert ==
  \E r \in cfg.lits, wok \in WriteFates :
    Reads(r) /\ Room(ed) /\ Finish(editInsert(ed, r, wok),
                                   editInsert(twin, r, TRUE), r, "Insert")

(***************************************************************************)
(* The escape sequences: the nested ReadRune calls under `case esc`.       *)
(***************************************************************************)
KeyEsc == Reads(esc) /\ Silent(esc, "Esc", "EscSeen")

\* the rune after ESC
EscByte ==
  /\ pc = "EscSeen"
  /\ \E b \in ({chLBracket, chO} \cup Unrecognized \cup Misplaced) \cap cfg.seq :
       Silent(b, IF b \in {chLBracket, chO} THEN "Esc" ELSE "Ignore",
              IF b = chLBracket THEN "CSISeen"
              ELSE IF b = chO THEN "SS3Seen" ELSE "Normal")

\* mutant: the arrows left and right exchanged
CSIByteArrowsSwapped ==
  /\ pc = "CSISeen"
  /\ \E b \in ({chA, chB, chC, chD, chH, chF, ch3} \cup OtherDigits \cup Unrecognized)
                \cap cfg.seq,
        wok \in WriteFates :
       IF b = chA THEN Finish(editHistoryPrev(ed, wok),
                              editHistoryPrev(twin, TRUE), b, "HistoryPrev")
       ELSE IF b = chB THEN Finish(editHistoryNext(ed, wok),
                                   editHistoryNext(twin, TRUE), b, "HistoryNext")
       ELSE IF b = chC THEN Finish(editMoveLeft(ed, wok),
                                   editMoveLeft(twin, TRUE), b, "MoveLeft")
       ELSE IF b = chD THEN Finish(editMoveRight(ed, wok),
                                   editMoveRight(twin, TRUE), b, "MoveRight")
       ELSE IF b = chH THEN Finish(editMoveHome(ed, wok),
                                   editMoveHome(twin, TRUE), b, "MoveHome")
       ELSE IF b = chF THEN Finish(editMoveEnd(ed, wok),
                                   editMoveEnd(twin, TRUE), b, "MoveEnd")
       ELSE IF b = ch3 THEN Silent(b, "Esc", "CSI3")
       ELSE IF b \in OtherDigits THEN Silent(b, "Esc", "CSIDigit")
       ELSE Silent(b, "Ignore", "Normal")

\* the rune after ESC [
CSIByte ==
  /\ pc = "CSISeen"
  /\ \E b \in ({chA, chB, chC, chD, chH, chF, ch3} \cup OtherDigits \cup Unrecognized)
                \cap cfg.seq,
        wok \in WriteFates :
       IF b = chA THEN Finish(editHistoryPrev(ed, wok),
                              editHistoryPrev(twin, TRUE), b, "HistoryPrev")
       ELSE IF b = chB THEN Finish(editHistoryNext(ed, wok),
                                   editHistoryNext(twin, TRUE), b, "HistoryNext")
       ELSE IF b = chC THEN Finish(editMoveRight(ed, wok),
                                   editMoveRight(twin, TRUE), b, "MoveRight")
       ELSE IF b = chD THEN Finish(editMoveLeft(ed, wok),
                                   editMoveLeft(twin, TRUE), b, "MoveLeft")
       ELSE IF b = chH THEN Finish(editMoveHome(ed, wok),
                                   editMoveHome(twin, TRUE), b, "MoveHome")
       ELSE IF b = chF THEN Finish(editMoveEnd(ed, wok),
                                   editMoveEnd(twin, TRUE), b, "MoveEnd")
       ELSE IF b = ch3 THEN Silent(b, "Esc", "CSI3")
       ELSE IF b \in OtherDigits THEN Silent(b, "Esc", "CSIDigit")
       ELSE Silent(b, "Ignore", "Normal")

\* the rune after ESC [ 3
CSI3Byte ==
  /\ pc = "CSI3"
  /\ \E b \in ({chTilde} \cup Unrecognized \cup Misplaced) \cap cfg.seq,
        wok \in WriteFates :
       IF b = chTilde THEN Finish(editDelete(ed, wok),
                                  editDelete(twin, TRUE), b, "DeleteForward")
       ELSE Silent(b, "Ignore", "Normal")

\* mutant: the rune after ESC [ <digit> handled as a literal
CSIDigitByteInserts ==
  /\ pc = "CSIDigit"
  /\ Room(ed)
  /\ \E b \in ({chTilde} \cup Unrecognized \cup Misplaced) \cap cfg.seq :
       Finish(editInsert(ed, b, TRUE),
              editInsert(twin, b, TRUE), b, "Insert")

\* the rune after ESC [ <digit other than 3>: read and dropped
CSIDigitByte ==
  /\ pc = "CSIDigit"
  /\ \E b \in ({chTilde} \cup Unrecognized \cup Misplaced) \cap cfg.seq :
       Silent(b, "Ignore", "Normal")

\* the rune after ESC O
SS3Byte ==
  /\ pc = "SS3Seen"
  /\ \E b \in ({chH, chF} \cup Unrecognized \cup Misplaced) \cap cfg.seq,
        wok \in WriteFates :
       IF b = chH THEN Finish(editMoveHome(ed, wok),
                              editMoveHome(twin, TRUE), b, "MoveHome")
       ELSE IF b = chF THEN Finish(editMoveEnd(ed, wok),
                                   editMoveEnd(twin, TRUE), b, "MoveEnd")
       ELSE Silent(b, "Ignore", "Normal")

(***************************************************************************)
(* Completion: completeLine() up to its first Peek, then one step per Peek.*)
(***************************************************************************)
\* the preview of candidate ring[i], then block in e.In.Peek(1)
Preview(ring, i, k, c, wok) ==
  LET r == refreshLineString(ed, ring[i], wok)
  IN  /\ ed' = r.e
      /\ out' = r.out
      /\ key' = k
      /\ cmd' = c
      /\ pending' = NoKey
      /\ typed' = Mixed
      /\ last' = Was(c, ed.Buffer)
      /\ seq' = <<>>
      /\ twin' = IF cfg.hint THEN refreshLineString(twin, ring[i], TRUE).e ELSE twin
      /\ UNCHANGED <<cfgVars, ids, nav>>
      /\ IF r.err # "nil" THEN Return(r.e.Buffer, r.err, "Error") /\ sess' = NoSess
         ELSE /\ pc' = "Complete" /\ cs' = ring /\ ci' = i /\ UNCHANGED retVars
              /\ sess' = IF c = "Complete"
                           THEN [buf |-> ed.Buffer, pos |-> ed.Pos, presses |-> 1]
                           ELSE [sess EXCEPT !.presses = @ + 1]

\* mutant: no candidates, and the loop entered with the original alone
completeNoneEntersLoop(wok) == Preview(<<ed.Buffer>>, 1, tab, "Complete", wok)

\* completeLine, len(opts) == 0: e.beep(); return nil
completeNone(wok) == Finish(beepNil(ed, wok),
                            beepNil(twin, TRUE), tab, "Complete")

\* mutant: completeLine alerting instead of inserting when e.Complete is nil
KeyTabNilAlerts ==
  /\ Reads(tab)
  /\ \E wok \in WriteFates :
       IF ~completeOn \/ Len(Complete(ed.Buffer)) = 0
         THEN Finish(beepNil(ed, wok),
                     beepNil(twin, TRUE), tab, "Complete")
       ELSE Preview(Complete(ed.Buffer) \o <<ed.Buffer>>, 1, tab, "Complete", wok)

\* case tab: completeLine()
KeyTab ==
  /\ Reads(tab)
  /\ \E wok \in WriteFates :
       IF ~completeOn
         THEN Room(ed) /\ Finish(editInsert(ed, tab, wok),
                                 editInsert(twin, tab, TRUE), tab, "Insert")
       ELSE IF Len(Complete(ed.Buffer)) = 0 THEN completeNone(wok)
       ELSE Preview(Complete(ed.Buffer) \o <<ed.Buffer>>, 1, tab, "Complete", wok)

\* the bytes the terminal may send while a candidate is previewed
PeekKeys == cfg.keys \cup cfg.lits

\* mutant: the trigger key read in the loop not advancing the ring
peekTabStays(wok) ==
  /\ sess.presses < MaxTabs
  /\ Preview(cs, ci, tab, "CompleteNext", wok)

\* case tab of the loop: ReadRune, cs = cs.Next(), and the next preview
peekTab(wok) ==
  /\ sess.presses < MaxTabs
  /\ Preview(cs, RingNext(ci, Len(cs)), tab, "CompleteNext", wok)

\* mutant: ESC in the loop keeping the previewed candidate
peekEscCommits(wok) ==
  Finish(refreshLine([ed EXCEPT !.Buffer = cs[ci], !.Pos = Len(cs[ci])], wok),
         refreshLine([twin EXCEPT !.Buffer = cs[ci], !.Pos = Len(cs[ci])], TRUE),
         esc, "CompleteCancel")

\* case esc of the loop: ReadRune, refreshLine, break
peekEsc(wok) == Finish(refreshLine(ed, wok),
                       refreshLine(twin, TRUE), esc, "CompleteCancel")

\* mutant: the default case taking the peeked byte out of the reader
peekDefaultSwallows(b) ==
  /\ ed' = [ed EXCEPT !.Buffer = cs[ci], !.Pos = Len(cs[ci])]
  /\ pending' = NoKey
  /\ key' = b
  /\ cmd' = "CompleteCommit"
  /\ typed' = Mixed
  /\ out' = <<>>
  /\ pc' = "Normal"
  /\ cs' = <<>>
  /\ ci' = 0
  /\ last' = Was("CompleteCommit", ed.Buffer)
  /\ sess' = NoSess
  /\ seq' = <<>>
  /\ twin' = IF cfg.hint THEN [twin EXCEPT !.Buffer = cs[ci], !.Pos = Len(cs[ci])]
             ELSE twin
  /\ UNCHANGED <<cfgVars, retVars, ids, nav>>

\* default of the loop: the candidate becomes the buffer, the cursor goes to
\* its end, and the peeked byte b stays in the reader
peekDefault(b) ==
  /\ b \in cfg.lits => Len(cs[ci]) < MaxLen
  /\ ed' = [ed EXCEPT !.Buffer = cs[ci], !.Pos = Len(cs[ci])]
  /\ pending' = b
  /\ key' = b
  /\ cmd' = "CompleteCommit"
  /\ typed' = Mixed
  /\ out' = <<>>
  /\ pc' = "Normal"
  /\ cs' = <<>>
  /\ ci' = 0
  /\ last' = Was("CompleteCommit", ed.Buffer)
  /\ sess' = NoSess
  /\ seq' = <<>>
  /\ twin' = IF cfg.hint THEN [twin EXCEPT !.Buffer = cs[ci], !.Pos = Len(cs[ci])]
             ELSE twin
  /\ UNCHANGED <<cfgVars, retVars, ids, nav>>

\* the switch on the peeked byte in completeLine's loop
CompletePeek ==
  /\ pc = "Complete"
  /\ \E b \in PeekKeys, wok \in WriteFates :
       IF b = tab THEN peekTab(wok)
       ELSE IF b = esc THEN peekEsc(wok)
       ELSE peekDefault(b)

(***************************************************************************)
(* The specification.                                                      *)
(***************************************************************************)
Next ==
  \/ CallLine
  \/ CallHistoryAdd
  \/ ReadFail
  \/ KeyEnter
  \/ KeyCtrlC
  \/ KeyBackspace
  \/ KeyCtrlD
  \/ KeyCtrlT
  \/ KeyCtrlB
  \/ KeyCtrlF
  \/ KeyCtrlP
  \/ KeyCtrlN
  \/ KeyCtrlU
  \/ KeyCtrlK
  \/ KeyCtrlA
  \/ KeyCtrlE
  \/ KeyCtrlL
  \/ KeyCtrlW
  \/ KeyInsert
  \/ KeyEsc
  \/ EscByte
  \/ CSIByte
  \/ CSI3Byte
  \/ CSIDigitByte
  \/ SS3Byte
  \/ KeyTab
  \/ CompletePeek

Spec == Init /\ [][Next]_vars

\* a step of a Line() call in progress
Running == pc # "Idle" /\ Next

\* The same program fed a finite input stream.  A read returns, with a byte
\* or with an error, so a call in progress takes its next step; and a stream
\* that ends makes the reads fail from then on, so a call that keeps reading
\* meets a failing read.
SpecFinite ==
  Init /\ [][Next]_vars /\ WF_vars(Running) /\ SF_vars(ReadFail)

(***************************************************************************)
(* The slice-backed history: the revision of the editor in which           *)
(* Editor.History is a History struct {Lines []string; Pos int}            *)
(* (src/unnamed/part_001).  Line(), refreshLine, editInsert are the same   *)
(* code; editReset, editHistoryPrev and editHistoryNext differ, and the    *)
(* caller stores lines with e.History.Add.  In this revision ed carries    *)
(* Lines and HPos (History.Pos, 0-based) in place of hist and hcur.        *)
(***************************************************************************)
\* `if len(h.Lines) == 0 { h.Lines = []string{""} }`
History_init(e) == IF Len(e.Lines) = 0 THEN [e EXCEPT !.Lines = <<(<<>>)>>] ELSE e

\* func (h *History) Add(l string)
History_Add(e, l) ==
  LET e1 == History_init(e)
      ls == [e1.Lines EXCEPT ![Len(e1.Lines)] = l] \o <<(<<>>)>>
  IN  [e1 EXCEPT !.Lines = ls, !.HPos = Len(ls) - 1]

\* func (h *History) Save(l string)
History_Save(e, l) ==
  LET e1 == History_init(e)
  IN  IF e1.HPos # Len(e1.Lines) - 1 THEN e1
      ELSE [e1 EXCEPT !.Lines = [e1.Lines EXCEPT ![Len(e1.Lines)] = l]]

\* func (h *History) Prev() error: whether it returns "beginning of history"
History_PrevFails(e) == e.HPos <= 0

\* func (h *History) Next() error: whether it returns "end of history"
History_NextFails(e) == e.HPos >= Len(e.Lines) - 1

\* func (h *History) Get() string
History_Get(e) == e.Lines[e.HPos + 1]

\* mutant: editHistoryPrev clamping at the oldest entry and redrawing it
editHistoryPrevSliceClamps(e, wok) ==
  LET e1 == History_Save(e, e.Buffer)
      e2 == [e1 EXCEPT !.HPos = Max(e1.HPos - 1, 0)]
  IN  refreshLine([e2 EXCEPT !.Buffer = History_Get(e2),
                             !.Pos = Len(History_Get(e2))], wok)

\* func (e *Editor) editHistoryPrev() error, slice-backed
editHistoryPrevSlice(e, wok) ==
  LET e1 == History_Save(e, e.Buffer)
      e2 == [e1 EXCEPT !.HPos = e1.HPos - 1]
  IN  IF History_PrevFails(e1) THEN beep(e1, wok)
      ELSE refreshLine([e2 EXCEPT !.Buffer = History_Get(e2),
                                  !.Pos = Len(History_Get(e2))], wok)

\* func (e *Editor) editHistoryNext() error, slice-backed
editHistoryNextSlice(e, wok) ==
  LET e2 == [e EXCEPT !.HPos = e.HPos + 1]
  IN  IF History_NextFails(e) THEN beep(e, wok)
      ELSE refreshLine([e2 EXCEPT !.Buffer = History_Get(e2),
                                  !.Pos = Len(History_Get(e2))], wok)

\* func (e *Editor) editReset() error with init(), slice-backed
editResetSlice(e, wok) ==
  refreshLine([e EXCEPT !.Buffer = <<>>, !.OldPos = 0, !.Pos = 0, !.MaxRows = 0,
                        !.Rows = IF e.Rows = 0 THEN DefaultRows ELSE e.Rows,
                        !.Cols = IF e.Cols = 0 THEN DefaultCols ELSE e.Cols], wok)

\* the run of the slice-backed revision: the caller adds "a", the terminal
\* types 'a', browses with Ctrl-P/Ctrl-N and accepts
SliceConfig ==
  [prompt |-> <<62, space>>, complete |-> FALSE, hint |-> FALSE, cols |-> 0,
   lits |-> {97}, keys |-> {ctrlP, ctrlN, enter}, seq |-> {},
   adds |-> {<<97>>}, flaky |-> FALSE]

InitSlice ==
  /\ ed = [Buffer |-> <<>>, Pos |-> 0, OldPos |-> 0, MaxRows |-> 0,
           Cols |-> SliceConfig.cols, Rows |-> 0, Lines |-> <<>>, HPos |-> 0,
           werr |-> FALSE, Hint |-> SliceConfig.hint]
  /\ twin = [Buffer |-> <<>>, Pos |-> 0, OldPos |-> 0, MaxRows |-> 0,
             Cols |-> SliceConfig.cols, Rows |-> 0, Lines |-> <<>>, HPos |-> 0,
             werr |-> FALSE, Hint |-> FALSE]
  /\ cfg = SliceConfig
  /\ pc = "Idle"
  /\ cs = <<>>
  /\ ci = 0
  /\ pending = NoKey
  /\ key = NoKey
  /\ cmd = "None"
  /\ typed = <<>>
  /\ out = <<>>
  /\ retText = <<>>
  /\ retErr = "none"
  /\ ending = "None"
  /\ ids = <<>>
  /\ nav = FALSE
  /\ last = Was("None", <<>>)
  /\ sess = NoSess
  /\ seq = <<>>

\* Line() is called: editReset, then the loop
SliceCallLine ==
  /\ pc = "Idle"
  /\ \E wok \in WriteFates :
       LET r == editResetSlice(ed, wok)
       IN  /\ ed' = r.e
           /\ out' = r.out
           /\ key' = NoKey
           /\ cmd' = "Start"
           /\ pending' = NoKey
           /\ typed' = <<>>
           /\ last' = Was("Start", <<>>)
           /\ seq' = <<>>
           /\ UNCHANGED <<cfgVars, ids, nav, sess, twin>>
           /\ IF r.err # "nil" THEN Return(r.e.Buffer, r.err, "Error")
              ELSE /\ pc' = "Normal"
                   /\ retText' = <<>>
                   /\ retErr' = "none"
                   /\ ending' = "None"
                   /\ UNCHANGED <<cs, ci>>

\* the caller stores a line with e.History.Add between two Line() calls
SliceHistoryAdd ==
  /\ pc = "Idle"
  /\ \E l \in cfg.adds :
       /\ Len(History_Add(ed, l).Lines) <= MaxHist + 1
       /\ ed' = History_Add(ed, l)
  /\ key' = NoKey
  /\ cmd' = "HistoryAdd"
  /\ out' = <<>>
  /\ UNCHANGED <<cfgVars, pc, cs, ci, pending, typed, retVars, ringVars, sess, seq, twin>>

\* the caller reads the store with e.History.Get() between two Line() calls;
\* h.Lines[h.Pos] outside the slice is an index out of range
SliceHistoryGet ==
  /\ pc = "Idle"
  /\ IF ed.HPos + 1 \in DOMAIN ed.Lines
       THEN pc' = "Idle" /\ retText' = History_Get(ed)
       ELSE pc' = "Panicked" /\ retText' = retText
  /\ key' = NoKey
  /\ cmd' = "HistoryGet"
  /\ out' = <<>>
  /\ UNCHANGED <<ed, cfgVars, cs, ci, pending, typed, retErr, ending, ringVars,
                 sess, seq, twin>>

\* case ctrlP
SliceKeyCtrlP ==
  \E wok \in WriteFates :
    Reads(ctrlP) /\ Finish(editHistoryPrevSlice(ed, wok),
                           editHistoryPrevSlice(twin, TRUE), ctrlP, "HistoryPrev")

\* case ctrlN
SliceKeyCtrlN ==
  \E wok \in WriteFates :
    Reads(ctrlN) /\ Finish(editHistoryNextSlice(ed, wok),
                           editHistoryNextSlice(twin, TRUE), ctrlN, "HistoryNext")

NextSlice ==
  \/ SliceCallLine
  \/ SliceHistoryAdd
  \/ SliceHistoryGet
  \/ SliceKeyCtrlP
  \/ SliceKeyCtrlN
  \/ KeyInsert
  \/ KeyEnter

SpecSlice == InitSlice /\ [][NextSlice]_vars

(***************************************************************************)
(* AdjustDimensions: the terminal is asked where its cursor is after a     *)
(* move to 999;999, and its reply sets Rows and Cols.  The reply is the    *)
(* bytes the terminal sends; cfg.reply holds them.                         *)
(***************************************************************************)
chSemi == 59
chR == 82
ch0 == 48
ch9 == 57

\* the largest int of strconv.Atoi on a 64-bit build, 9223372036854775807
IntMaxDigits ==
  <<57, 50, 50, 51, 51, 55, 50, 48, 51, 54, 56, 53, 52, 55, 55, 53, 56, 48, 55>>

\* e.In.ReadString('R'): the bytes up to and including the first 'R';
\* without an 'R' the read ends in an error (ok = FALSE)
ReadString(s, delim) ==
  IF \E i \in DOMAIN s : s[i] = delim
    THEN LET i == CHOOSE j \in DOMAIN s :
                    s[j] = delim /\ \A k \in 1..(j - 1) : s[k] # delim
         IN  [ok |-> TRUE, res |-> SubSeq(s, 1, i)]
    ELSE [ok |-> FALSE, res |-> s]

\* \d of the pattern
IsDigit(b) == ch0 <= b /\ b <= ch9

\* the index of the last byte of the run of digits of s that starts at i
\* (i - 1 when s[i] is no digit)
DigitRunEnd(s, i) ==
  LET ends == {j \in (i - 1)..Len(s) : \A k \in i..j : IsDigit(s[k])}
  IN  CHOOSE j \in ends : \A k \in ends : k <= j

\* the submatches of "\x1b\\[(\\d+);(\\d+)R" when the pattern matches at i,
\* <<>> when it does not
MatchAt(s, i) ==
  IF i + 1 <= Len(s) /\ s[i] = esc /\ s[i + 1] = chLBracket
    THEN LET a == DigitRunEnd(s, i + 2)
         IN  IF a >= i + 2 /\ a + 1 <= Len(s) /\ s[a + 1] = chSemi
               THEN LET b == DigitRunEnd(s, a + 2)
                    IN  IF b >= a + 2 /\ b + 1 <= Len(s) /\ s[b + 1] = chR
                          THEN <<SubSeq(s, i, b + 1), SubSeq(s, i + 2, a),
                                 SubSeq(s, a + 2, b)>>
                          ELSE <<>>
               ELSE <<>>
    ELSE <<>>

\* dimPattern.FindStringSubmatch(res): the leftmost match with its two
\* groups (Go's ms[0], ms[1], ms[2] are [1], [2], [3] here), nil (<<>>) when
\* nothing matches
FindStringSubmatch(s) ==
  LET at == {i \in DOMAIN s : MatchAt(s, i) # <<>>}
  IN  IF at = {} THEN <<>>
      ELSE MatchAt(s, CHOOSE i \in at : \A k \in at : i <= k)

\* the digits without their leading zeros
RECURSIVE StripZeros(_)
StripZeros(ds) ==
  IF Len(ds) > 1 /\ ds[1] = ch0 THEN StripZeros(Tail(ds)) ELSE ds

\* a < b for two runs of digits of the same length
RECURSIVE DigitsLess(_, _)
DigitsLess(a, b) ==
  IF a = <<>> THEN FALSE
  ELSE IF a[1] # b[1] THEN a[1] < b[1]
  ELSE DigitsLess(Tail(a), Tail(b))

RECURSIVE DigitsValue(_)
DigitsValue(ds) ==
  IF ds = <<>> THEN 0
  ELSE 10 * DigitsValue(SubSeq(ds, 1, Len(ds) - 1)) + (ds[Len(ds)] - ch0)

\* strconv.Atoi on a run of digits: the value, or a range error when it
\* does not fit an int
Atoi(ds) ==
  LET d == StripZeros(ds)
  IN  IF Len(d) > Len(IntMaxDigits)
         \/ (Len(d) = Len(IntMaxDigits) /\ DigitsLess(IntMaxDigits, d))
        THEN [ok |-> FALSE, n |-> 0]
        ELSE [ok |-> TRUE, n |-> DigitsValue(d)]

\* func (e *Editor) AdjustDimensions() error
\* The query is written and flushed, the reply is read up to 'R' and parsed;
\* ms[1] on a nil match is an index out of range.
AdjustDimensions(e, reply, wok) ==
  LET w  == WriteFlush(e, <<Tok("query", 0, <<>>)>>, wok)
      rd == ReadString(reply, chR)
      ms == FindStringSubmatch(rd.res)
  IN  IF w.err # "nil" THEN w
      ELSE IF ~rd.ok THEN Res(w.e, w.out, "io.EOF")
      ELSE IF ms = <<>> THEN Panic(w.e)
      ELSE IF ~Atoi(ms[2]).ok THEN Res(w.e, w.out, "strconv.ErrRange")
      ELSE IF ~Atoi(ms[3]).ok THEN Res(w.e, w.out, "strconv.ErrRange")
      ELSE Res([w.e EXCEPT !.Cols = Atoi(ms[3]).n, !.Rows = Atoi(ms[2]).n],
               w.out \o <<Tok("restore", 0, <<>>)>>, "nil")

\* the replies: what may come before the sequence, its introducer, the two
\* runs of digits, the separator and the end
ReplyLead == {<<>>, <<97>>}
ReplyIntro == {<<esc, chLBracket>>, <<esc>>, <<>>}
\* (runs of digits in range are short ones: their values are computed)
ReplyDigits ==
  {<<>>, <<50>>, <<50, 52>>, <<48, 56>>, [IntMaxDigits EXCEPT ![19] = 56],
   IntMaxDigits \o <<ch0>>}
ReplySep == {<<chSemi>>, <<>>}
ReplyEnd == {<<chR>>, <<>>, <<97, chR>>}
Replies ==
  {l \o i \o r \o s \o c \o t :
     l \in ReplyLead, i \in ReplyIntro, r \in ReplyDigits, s \in ReplySep,
     c \in {<<>>, <<56, 48>>, IntMaxDigits \o <<ch0>>}, t \in ReplyEnd}

DimConfigs ==
  {[prompt |-> <<62, space>>, complete |-> FALSE, hint |-> FALSE, cols |-> w,
    lits |-> {}, keys |-> {}, seq |-> {}, adds |-> {}, flaky |-> f,
    reply |-> r] : w \in {0, 40}, f \in BOOLEAN, r \in Replies}

InitDim ==
  /\ cfg \in DimConfigs
  /\ ed = [Buffer |-> <<>>, Pos |-> 0, OldPos |-> 0, MaxRows |-> 0,
           Cols |-> cfg.cols, Rows |-> 0, hist |-> <<>>, hcur |-> 0,
           werr |-> FALSE, Hint |-> FALSE]
  /\ twin = ed
  /\ pc = "Idle"
  /\ cs = <<>>
  /\ ci = 0
  /\ pending = NoKey
  /\ key = NoKey
  /\ cmd = "None"
  /\ out = <<>>
  /\ typed = <<>>
  /\ retText = <<>>
  /\ retErr = "none"
  /\ ending = "None"
  /\ ids = <<>>
  /\ nav = 0
  /\ last = Was("None", <<>>)
  /\ sess = NoSess
  /\ seq = <<>>

\* the program calls e.AdjustDimensions() once, before it reads lines
CallAdjustDimensions ==
  /\ pc = "Idle"
  /\ cmd = "None"
  /\ \E wok \in WriteFates :
       LET r == AdjustDimensions(ed, cfg.reply, wok)
       IN  /\ ed' = r.e
           /\ out' = r.out
           /\ retErr' = r.err
           /\ pc' = IF r.err = "panic" THEN "Panicked" ELSE "Idle"
  /\ cmd' = "AdjustDimensions"
  /\ UNCHANGED <<cfgVars, cs, ci, pending, key, typed, retText, ending,
                 ringVars, sess, seq, twin>>

NextDim == CallAdjustDimensions

SpecDim == InitDim /\ [][NextDim]_vars

(***************************************************************************)
(* Vocabulary of the properties.                                           *)
(***************************************************************************)
\* how many tokens of kind op the output o holds
Count(o, op) == Cardinality({i \in DOMAIN o : o[i].op = op})

\* alerts (bells) in o
Alerts(o) == Count(o, "bell")

\* redraws in o: each refreshLine writes the buffer once
Redraws(o) == Count(o, "buffer")

\* b2 is b with the code point at 0-based index i removed, the others in order
Removed(b, b2, i) ==
  /\ Len(b2) = Len(b) - 1
  /\ \A j \in 1..Len(b2) : b2[j] = IF j <= i THEN b[j] ELSE b[j + 1]

\* the step is a boundary no-op: nothing moves, no redraw, and one alert is
\* written unless the writer had already failed
NoOpAlert ==
  /\ Buffer' = Buffer
  /\ Pos' = Pos
  /\ Redraws(out') = 0
  /\ ~ed.werr => Alerts(out') = 1

\* the step redrew once unless the writer had already failed, and did not alert
Redrawn ==
  /\ Alerts(out') = 0
  /\ ~ed.werr => Redraws(out') = 1

\* after the step Line() goes on reading, unless the step's write failed
Continues ==
  \/ pc' = "Normal"
  \/ pc' = "Idle" /\ retErr' = "write error" /\ ending' = "Error" /\ ed'.werr

\* the step is DeleteForward as the line buffer defines it
DeleteForwardStep ==
  IF Pos = Len(Buffer) THEN NoOpAlert
  ELSE Removed(Buffer, Buffer', Pos) /\ Pos' = Pos /\ Redrawn

(***************************************************************************)
(* C1: in every state inside Line(), whatever keys were read, the cursor   *)
(* satisfies 0 <= Pos <= len(Buffer).                                      *)
(***************************************************************************)
C1_CursorInBuffer == pc # "Idle" => (0 <= Pos /\ Pos <= Len(Buffer))

\* the cursor strictly inside a buffer, after a move
C1_Witness == pc = "Normal" /\ cmd = "MoveLeft" /\ 0 < Pos /\ Pos < Len(Buffer)

(***************************************************************************)
(* C2: when Enter (13) is read, Line() returns exactly the buffer of that  *)
(* moment with a nil error, and the key causes no output.                  *)
(***************************************************************************)
C2_EnterReturnsBuffer ==
  [][(pc = "Normal" /\ key' = enter) =>
       /\ pc' = "Idle"
       /\ ending' = "Accepted"
       /\ retText' = Buffer
       /\ retErr' = "nil"
       /\ out' = <<>>
       /\ ed' = ed]_vars

\* Enter returned a line of two or more code points
C2_Witness ==
  pc = "Idle" /\ key = enter /\ retErr = "nil" /\ Len(retText) >= 2 /\ retText = Buffer

(***************************************************************************)
(* C3: inserting a literal r at cursor c turns b into b[0..c) ++ [r] ++    *)
(* b[c..), sets the cursor to c+1 and always succeeds (no alert; Line()    *)
(* goes on); hence after literal inserts only, the buffer is the           *)
(* concatenation of the runes read, in order, and the cursor is at its end.*)
(***************************************************************************)
C3_InsertSplices ==
  [][/\ (pc = "Normal" /\ key' \notin ControlKeys \cup {NoKey}) =>
          /\ Buffer' = SubSeq(Buffer, 1, Pos) \o <<key'>>
                         \o SubSeq(Buffer, Pos + 1, Len(Buffer))
          /\ Pos' = Pos + 1
          /\ Redrawn
          /\ Continues
     /\ typed' # Mixed => (Buffer' = typed' /\ Pos' = Len(Buffer'))]_vars

\* an insert between two code points already in the buffer
C3_Witness ==
  pc = "Normal" /\ cmd = "Insert" /\ key = space /\ Pos = 2 /\ Len(Buffer) = 3
  /\ Buffer[2] = space

(***************************************************************************)
(* C4: when Ctrl-C (3) is read in the main loop, Line() stops with the     *)
(* non-nil "interrupted" error and returns the buffer as it was.           *)
(***************************************************************************)
C4_CtrlCReturnsPartial ==
  [][(pc = "Normal" /\ key' = ctrlC) =>
       /\ pc' = "Idle"
       /\ ending' = "Cancelled"
       /\ retErr' = "try again"
       /\ retText' = Buffer
       /\ ed' = ed]_vars

\* Ctrl-C returned a non-empty partial line
C4_Witness == pc = "Idle" /\ key = ctrlC /\ retErr = "try again" /\ Len(retText) >= 1

(***************************************************************************)
(* C5: Ctrl-D (4) ends Line() with the end-of-stream error and empty text  *)
(* if and only if the buffer is empty; on a non-empty buffer it is         *)
(* DeleteForward at the cursor and Line() goes on.                         *)
(***************************************************************************)
C5_CtrlD ==
  [][(pc = "Normal" /\ key' = ctrlD) =>
       IF Len(Buffer) = 0
         THEN /\ pc' = "Idle"
              /\ ending' = "Aborted"
              /\ retErr' = "EOF"
              /\ retText' = <<>>
         ELSE /\ DeleteForwardStep
              /\ Continues
              /\ retErr' # "EOF"]_vars

\* Ctrl-D deleted the code point under the cursor of a non-empty buffer
C5_Witness ==
  pc = "Normal" /\ key = ctrlD /\ cmd = "DeleteForward" /\ Len(Buffer) >= 1
  /\ Alerts(out) = 0

(***************************************************************************)
(* C6: the four ways Line() ends - confirmed line, end-of-stream (Ctrl-D   *)
(* on an empty buffer), interrupted (Ctrl-C), channel error (a failed read *)
(* or write) - are pairwise distinguishable from the returned (text, err). *)
(* Enter alone returns a nil error, Ctrl-C alone "try again", and Ctrl-D   *)
(* only ("", io.EOF); so the endings can be told apart exactly when        *)
(* EndingOf, which reads the pair that way, names the ending that          *)
(* produced it.                                                            *)
(***************************************************************************)
EndingOf(text, err) ==
  IF err = "nil" THEN "Accepted"
  ELSE IF err = "try again" THEN "Cancelled"
  ELSE IF err = "EOF" /\ text = <<>> THEN "Aborted"
  ELSE "Error"

C6_EndingsDistinguishable ==
  (pc = "Idle" /\ ending # "None") => EndingOf(retText, retErr) = ending

(***************************************************************************)
(* C7: if a write or flush fails while a command is handled - the alert of *)
(* a boundary no-op and the redraw of history navigation included -        *)
(* Line() returns that error before it reads another input byte.           *)
(***************************************************************************)
C7_WriteErrorReturns ==
  [][(~ed.werr /\ ed'.werr) => (pc' = "Idle" /\ retErr' = "write error")]_vars

(***************************************************************************)
(* C8: MoveLeft, MoveRight, MoveHome and MoveEnd never change the buffer   *)
(* and keep the cursor in [0, len(buffer)]; at the boundary (left/home at  *)
(* 0, right/end at len) the step emits exactly one alert, leaves the       *)
(* cursor where it is and does not redraw; elsewhere the cursor goes one   *)
(* left, one right, to 0 or to len.                                        *)
(***************************************************************************)
MoveTarget(c, b, p) ==
  IF c = "MoveLeft" THEN (IF p = 0 THEN p ELSE p - 1)
  ELSE IF c = "MoveRight" THEN (IF p = Len(b) THEN p ELSE p + 1)
  ELSE IF c = "MoveHome" THEN 0
  ELSE Len(b)

C8_MovesStayInBounds ==
  [][cmd' \in {"MoveLeft", "MoveRight", "MoveHome", "MoveEnd"} =>
       /\ Buffer' = Buffer
       /\ 0 <= Pos' /\ Pos' <= Len(Buffer')
       /\ IF MoveTarget(cmd', Buffer, Pos) = Pos THEN NoOpAlert
          ELSE Pos' = MoveTarget(cmd', Buffer, Pos) /\ Redrawn]_vars

\* Home pressed with the cursor already at 0 of a non-empty buffer: one alert
C8_Witness ==
  pc = "Normal" /\ cmd = "MoveHome" /\ Pos = 0 /\ Len(Buffer) >= 1
  /\ Alerts(out) = 1 /\ Redraws(out) = 0

(***************************************************************************)
(* C9: DeleteBackward (127 or Ctrl-H) with the cursor at 0 is a no-op with *)
(* one alert; otherwise it removes exactly the code point at cursor-1,     *)
(* keeps all others in order and decrements the cursor.                    *)
(***************************************************************************)
C9_DeleteBackward ==
  [][(pc = "Normal" /\ key' \in {backspace, ctrlH}) =>
       IF Pos = 0 THEN NoOpAlert
       ELSE Removed(Buffer, Buffer', Pos - 1) /\ Pos' = Pos - 1 /\ Redrawn]_vars

\* Ctrl-H removed a code point that had neighbours on both sides
C9_Witness ==
  pc = "Normal" /\ key = ctrlH /\ cmd = "DeleteBackward" /\ Alerts(out) = 0
  /\ 1 <= Pos /\ Pos < Len(Buffer)

(***************************************************************************)
(* C10: DeleteForward with the cursor at len(buffer) is a no-op with one   *)
(* alert; otherwise it removes exactly the code point at the cursor, keeps *)
(* all others in order and leaves the cursor offset unchanged.             *)
(***************************************************************************)
C10_DeleteForward == [][cmd' = "DeleteForward" => DeleteForwardStep]_vars

\* ESC [ 3 ~ removed a code point that had neighbours on both sides
C10_Witness ==
  pc = "Normal" /\ key = chTilde /\ cmd = "DeleteForward" /\ Alerts(out) = 0
  /\ 1 <= Pos /\ Pos < Len(Buffer)

(***************************************************************************)
(* C11: Transpose (Ctrl-T) with cursor c on a buffer of length n swaps the *)
(* code points at min(c, n-1)-1 and min(c, n-1) and advances the cursor    *)
(* by one unless it is at the end; when there is nothing to swap (that     *)
(* position is 0, or the buffer is empty) it is a no-op with one alert;    *)
(* for every n >= 0 and 0 <= c <= n.                                       *)
(***************************************************************************)
C11_Transpose ==
  [][(pc = "Normal" /\ key' = ctrlT) =>
       LET n == Len(Buffer)
           p == Min(Pos, n - 1)
       IN  IF p <= 0 THEN NoOpAlert /\ pc' # "Panicked"
           ELSE /\ Buffer' = [Buffer EXCEPT ![p] = Buffer[p + 1], ![p + 1] = Buffer[p]]
                /\ Pos' = IF Pos < n THEN Pos + 1 ELSE Pos
                /\ Redrawn]_vars

(***************************************************************************)
(* C12: DeletePrevWord (Ctrl-W) goes back from the cursor over a run of    *)
(* spaces and then a run of non-space code points (only the space is a     *)
(* separator) to a boundary p, which is 0 if no space precedes the word;   *)
(* afterwards the buffer is exactly the first p code points of the old     *)
(* buffer and the cursor is p.                                             *)
(***************************************************************************)
\* where the run of code points of b that ends at index c (exclusive) and
\* lies in or out of the spaces, as sp says, begins
RunStart(b, c, sp) ==
  CHOOSE j \in 0..c :
    /\ \A i \in (j + 1)..c : (b[i] = space) = sp
    /\ j = 0 \/ (b[j] = space) # sp

WordBoundary(b, c) == RunStart(b, RunStart(b, c, TRUE), FALSE)

C12_DeletePrevWord ==
  [][(pc = "Normal" /\ key' = ctrlW) =>
       /\ Buffer' = SubSeq(Buffer, 1, WordBoundary(Buffer, Pos))
       /\ Pos' = WordBoundary(Buffer, Pos)
       /\ Redrawn]_vars

\* Ctrl-W removed the second word of "a a" and left "a "
C12_Witness ==
  pc = "Normal" /\ cmd = "DeletePrevWord" /\ Buffer = <<97, space>> /\ Pos = 2

(***************************************************************************)
(* C13: between two reads of the main loop every edit command produces     *)
(* exactly one output flush: one full redraw when it changes the line, or  *)
(* one alert and no redraw when it is a boundary no-op; Accept, Cancel,    *)
(* end-of-input and the bytes of escape sequences that run no command      *)
(* write nothing.  (Stated for a writer that accepts the bytes.)  Three    *)
(* commands in a row - insert, delete-backward, insert - therefore         *)
(* redraw three times.                                                     *)
(***************************************************************************)
\* the commands of the line buffer and of history navigation
EditCmds ==
  {"DeleteBackward", "DeleteForward", "Transpose", "MoveLeft", "MoveRight",
   "MoveHome", "MoveEnd", "HistoryPrev", "HistoryNext", "Reset", "KillToEnd",
   "ClearScreen", "DeletePrevWord", "Insert"}

\* the steps that run no edit function
QuietCmds == {"Accept", "Cancel", "Abort", "Esc", "Ignore"}

C13_OneFlushPerCommand ==
  [][/\ (cmd' \in EditCmds /\ ~ed'.werr) =>
          /\ Count(out', "flush") = 1
          /\ out'[Len(out')].op = "flush"
          /\ Redraws(out') + Alerts(out') = 1
          /\ <<Buffer', Pos'>> # <<Buffer, Pos>> => Redraws(out') = 1
     /\ cmd' \in QuietCmds => out' = <<>>]_vars

(***************************************************************************)
(* Vocabulary of the history properties.                                   *)
(***************************************************************************)
HistoryCmds == {"HistoryPrev", "HistoryNext"}

\* the ring element e.History points at is the one created holding ""
AtDraft == ed.hcur # 0 /\ ids[ed.hcur] = 0

\* the numbers of the lines HistoryAdd stored
Stored == {ids[i] : i \in DOMAIN ids} \ {0}

Newest == CHOOSE k \in Stored : \A j \in Stored : j <= k

Oldest == CHOOSE k \in Stored : \A j \in Stored : k <= j

\* where the command c takes the browse position i in a ring of n elements
Moved(c, i, n) == IF c = "HistoryPrev" THEN RingPrev(i, n) ELSE RingNext(i, n)

(***************************************************************************)
(* C14: adding the same line twice in succession, with no navigation in    *)
(* between, leaves one stored occurrence of it: as long as nothing has     *)
(* navigated, no two lines stored one after the other are equal.           *)
(***************************************************************************)
C14_NoConsecutiveDuplicates ==
  ~nav => \A i, j \in DOMAIN ids :
            (ids[i] >= 1 /\ ids[j] = ids[i] + 1) => ed.hist[i] # ed.hist[j]

(***************************************************************************)
(* C16: in the ring-backed history navigation is circular and never        *)
(* alerts: HistoryPrev and HistoryNext move the browse position by one     *)
(* around the ring of the n added lines and the draft (so n+1 HistoryPrev  *)
(* in a row come back to where they started) and redraw; from the draft    *)
(* HistoryPrev shows the newest added line and HistoryNext the oldest;     *)
(* with no added line the unchanged buffer is redrawn.                     *)
(***************************************************************************)
C16_RingNavigation ==
  [][cmd' \in HistoryCmds =>
       /\ Redrawn
       /\ Len(ed'.hist) = Len(ed.hist)
       /\ Cardinality(Stored) = Len(ed.hist) - 1
       /\ ed'.hcur = Moved(cmd', ed.hcur, Len(ed.hist))
       /\ Buffer' = ed'.hist[ed'.hcur]
       /\ (AtDraft /\ Stored # {}) =>
             ids[ed'.hcur] = IF cmd' = "HistoryPrev" THEN Newest ELSE Oldest
       /\ Stored = {} => Buffer' = Buffer]_vars

(***************************************************************************)
(* C17: with a non-empty history and a draft d in the buffer, HistoryPrev  *)
(* shows the recalled entry, and a HistoryNext right after it leaves the   *)
(* buffer equal to d again, with the cursor at the end of the buffer.      *)
(***************************************************************************)
C17_PrevNextRestoresDraft ==
  [][Len(ed.hist) >= 2 =>
       /\ cmd' = "HistoryPrev" =>
            /\ Buffer' = ed.hist[RingPrev(ed.hcur, Len(ed.hist))]
            /\ Pos' = Len(Buffer')
       /\ (cmd' = "HistoryNext" /\ last.cmd = "HistoryPrev") =>
            /\ Buffer' = last.buf
            /\ Pos' = Len(Buffer')]_vars

\* the down arrow put the draft "aa" back after the recalled "a" was shown
C17_Witness ==
  /\ pc = "Normal" /\ cmd = "HistoryNext" /\ key = chB
  /\ last.buf = <<97>> /\ Buffer = <<97, 97>> /\ Pos = 2 /\ AtDraft

(***************************************************************************)
(* C18: every HistoryPrev and HistoryNext first writes the buffer into the *)
(* slot at the browse position and only then moves and shows the slot it   *)
(* reaches; so navigating away from a line and straight back shows the     *)
(* line as it was left, edits of a recalled line included.                 *)
(***************************************************************************)
C18_SaveBeforeMove ==
  [][cmd' \in HistoryCmds =>
       /\ ed'.hist = [ed.hist EXCEPT ![ed.hcur] = Buffer]
       /\ ed'.hcur = Moved(cmd', ed.hcur, Len(ed.hist))
       /\ Buffer' = ed'.hist[ed'.hcur]
       /\ (last.cmd \in HistoryCmds /\ last.cmd # cmd') => Buffer' = last.buf]_vars

\* the recalled "a" was edited to "aa", left for the draft and shown again
C18_Witness ==
  /\ pc = "Normal" /\ cmd = "HistoryPrev" /\ last.buf = <<>>
  /\ ~AtDraft /\ Buffer = <<97, 97>> /\ Len(ed.hist) = 2

(***************************************************************************)
(* C19: whenever no Line() call is navigating - after Line() has returned  *)
(* and when the next Line() call starts - the browse position is at the    *)
(* draft slot and that slot holds the empty line.                          *)
(***************************************************************************)
C19_DraftWhenNotNavigating ==
  ((pc = "Idle" \/ cmd = "Start") /\ ed.hcur # 0) =>
    (AtDraft /\ ed.hist[ed.hcur] = <<>>)

(***************************************************************************)
(* C20: with no completion provider configured, the tab key (9) is         *)
(* inserted at the cursor as a literal code point, exactly as any other    *)
(* literal: spliced in at the cursor, cursor advanced by one, one redraw,  *)
(* no alert, and Line() goes on.                                           *)
(***************************************************************************)
C20_TabLiteralWithoutProvider ==
  [][(pc = "Normal" /\ key' = tab /\ ~completeOn) =>
       /\ Buffer' = SubSeq(Buffer, 1, Pos) \o <<tab>>
                      \o SubSeq(Buffer, Pos + 1, Len(Buffer))
       /\ Pos' = Pos + 1
       /\ cmd' = "Insert"
       /\ Redrawn
       /\ Continues]_vars

\* a tab inserted between two code points of the buffer
C20_Witness ==
  /\ pc = "Normal" /\ ~completeOn /\ key = tab /\ cmd = "Insert"
  /\ Len(Buffer) = 3 /\ Pos = 2 /\ Buffer[2] = tab

(***************************************************************************)
(* C15: in the slice-backed history, HistoryPrev at the oldest entry and   *)
(* HistoryNext at the draft slot each fail: one alert is emitted, the      *)
(* browse position does not move, buffer and cursor are unchanged.         *)
(***************************************************************************)
BoundaryFail == NoOpAlert /\ ed'.HPos = ed.HPos

C15_SliceBoundaryAlerts ==
  [][/\ (cmd' = "HistoryPrev" /\ ed.HPos = 0) => BoundaryFail
     /\ (cmd' = "HistoryNext" /\ ed.HPos >= Len(ed.Lines) - 1) => BoundaryFail]_vars

\* Ctrl-P pressed once more while the oldest of the stored lines is shown
C15_Witness ==
  /\ pc = "Normal" /\ cmd = "HistoryPrev" /\ Alerts(out) = 1
  /\ ed.HPos = 0 /\ Len(ed.Lines) >= 2 /\ Buffer = <<97>>

Shown(o) == o[CHOOSE i \in DOMAIN o : o[i].op = "buffer" /\
                                      \A j \in DOMAIN o : o[j].op = "buffer" => j <= i].s

C22_CompletionCycle ==
  pc = "Complete" =>
    LET o == sess.buf
        k == Len(Complete(o))
        cycle == Complete(o) \o <<o>>
    IN  /\ k >= 1
        /\ sess.presses >= 1
        /\ Redraws(out) = 1
        /\ Shown(out) = cycle[((sess.presses - 1) % (k + 1)) + 1]

C22_Witness ==
  /\ pc = "Complete" /\ Len(Complete(sess.buf)) = 2 /\ sess.presses = 4
  /\ Shown(out) = sess.buf \o <<97>>

(***************************************************************************)
(* C23: ESC read in the completion loop, after any number of trigger keys, *)
(* leaves buffer and cursor exactly as they were when the loop was         *)
(* entered, redraws that buffer once and leaves the loop: the next byte is *)
(* read at the top of Line()'s loop.                                       *)
(***************************************************************************)
C23_CancelRestores ==
  [][(pc = "Complete" /\ key' = esc) =>
       /\ Buffer' = sess.buf
       /\ Pos' = sess.pos
       /\ Redrawn
       /\ ~ed.werr => Shown(out') = sess.buf
       /\ Continues
       /\ cs' = <<>>
       /\ sess' = NoSess
       /\ pending' = NoKey]_vars

C23_Witness ==
  /\ cmd = "CompleteCancel" /\ key = esc /\ pc = "Normal"
  /\ Len(Buffer) = 2 /\ Pos = 1 /\ Redraws(out) = 1 /\ Shown(out) = Buffer

(***************************************************************************)
(* C24: in the completion loop a byte other than the trigger key and ESC   *)
(* makes the displayed candidate the buffer with the cursor at its end,    *)
(* writes nothing and stays in the reader; the next iteration of Line()'s  *)
(* loop reads exactly that byte and handles it as ordinary input, so that  *)
(* Enter returns the committed candidate.                                  *)
(***************************************************************************)
C24_CommitAndRedispatch ==
  [][/\ (pc = "Complete" /\ key' \notin {tab, esc, NoKey}) =>
          /\ Buffer' = (Complete(sess.buf) \o <<sess.buf>>)
                          [((sess.presses - 1) % (Len(Complete(sess.buf)) + 1)) + 1]
          /\ Buffer' = Shown(out)
          /\ Pos' = Len(Buffer')
          /\ out' = <<>>
          /\ pending' = key'
          /\ pc' = "Normal"
          /\ cs' = <<>>
     /\ pending # NoKey =>
          /\ pc = "Normal"
          /\ key' = pending
          /\ pending' = NoKey
          /\ cmd' # "ReadFail"
     /\ pending = enter =>
          /\ retText' = Buffer
          /\ retErr' = "nil"
          /\ ending' = "Accepted"
          /\ pc' = "Idle"
     /\ (pending \in cfg.lits /\ pending # tab) =>
          /\ Buffer' = Buffer \o <<pending>>
          /\ Pos' = Pos + 1]_vars

C24_Witness ==
  /\ cmd = "CompleteCommit" /\ pending = enter /\ pc = "Normal"
  /\ Buffer = <<97, 97>> /\ Pos = 2

(***************************************************************************)
(* C25: a Hint callback changes what is displayed only.  With the same     *)
(* calls and the same bytes read, the buffer, the cursor and the history   *)
(* after every command, and the text Line() returns, are the same as those *)
(* of an Editor without a Hint callback.                                   *)
(***************************************************************************)
C25_HintNotInText ==
  cfg.hint =>
    /\ hintOn /\ ~twin.Hint
    /\ twin.Buffer = Buffer
    /\ twin.Pos = Pos
    /\ twin.hist = ed.hist
    /\ twin.hcur = ed.hcur
    /\ (pc = "Idle" /\ ending # "None" /\ cmd # "HistoryAdd") => retText = twin.Buffer

C25_Witness ==
  /\ cfg.hint /\ pc = "Normal" /\ cmd = "DeleteBackward"
  /\ \E i \in DOMAIN out : out[i].op = "hint" /\ out[i].s # <<>>
  /\ twin.MaxRows # MaxRows
  /\ Buffer = <<97>>

(***************************************************************************)
(* C26: every redraw ends by placing the cursor at row (pw+cw) div cols,   *)
(* column (pw+cw) mod cols, pw and cw being the widths of the prompt and   *)
(* of the buffer before the cursor (1 per code point, 4 for a tab): from   *)
(* the row the drawn content ends on it moves up by the rows between that  *)
(* row and the cursor's, writes a carriage return and then moves right by  *)
(* exactly the cursor's column when that is not 0.                         *)
(***************************************************************************)
\* the width of s: 1 per code point, 4 for a tab
TextWidth(s) == Len(s) + 3 * Cardinality({i \in DOMAIN s : s[i] = tab})

\* the index in o of the only token with operation op
At(o, op) == CHOOSE i \in DOMAIN o : o[i].op = op

\* what a redraw o writes after the erase that follows the content, the
\* newline of a cursor on a fresh row left out
Reposition(o) ==
  LET rest == SubSeq(o, At(o, "eraseRight") + 1, Len(o))
  IN  IF rest # <<>> /\ rest[1].op = "newline" THEN Tail(rest) ELSE rest

Effect(F(_, _)) ==
  \E wok \in WriteFates :
    LET r == F(ed, wok)
    IN  /\ ed' = r.e
        /\ out' = r.out
        /\ pending' = NoKey
        /\ IF r.err = "nil" THEN pc' = "Normal"
           ELSE pc' = "Idle" /\ retErr' = r.err /\ retText' = r.e.Buffer

C27_EscapeSequencesAsKeys ==
  [][/\ pc = "CSISeen" =>
          /\ key' = chA => Effect(editHistoryPrev)
          /\ key' = chB => Effect(editHistoryNext)
          /\ key' = chC => Effect(editMoveRight)
          /\ key' = chD => Effect(editMoveLeft)
          /\ key' = chH => Effect(editMoveHome)
          /\ key' = chF => Effect(editMoveEnd)
     /\ pc = "SS3Seen" =>
          /\ key' = chH => Effect(editMoveHome)
          /\ key' = chF => Effect(editMoveEnd)
     /\ (pc = "CSI3" /\ key' = chTilde) =>
          /\ Effect(editDelete)
          /\ DeleteForwardStep
          /\ retErr' # "EOF"
          /\ Continues
     /\ pc = "Normal" =>
          /\ key' = ctrlP => Effect(editHistoryPrev)
          /\ key' = ctrlN => Effect(editHistoryNext)
          /\ key' = ctrlF => Effect(editMoveRight)
          /\ key' = ctrlB => Effect(editMoveLeft)
          /\ key' = ctrlA => Effect(editMoveHome)
          /\ key' = ctrlE => Effect(editMoveEnd)]_vars

C27_Witness ==
  /\ seq = <<>> /\ cmd = "DeleteForward" /\ key = chTilde /\ pc = "Normal"
  /\ Buffer = <<>> /\ Alerts(out) = 1 /\ retErr = "none"

(***************************************************************************)
(* C28: an escape sequence no case matches is read and ignored.  It takes  *)
(* exactly 2 bytes when the byte after ESC is neither '[' nor 'O', 3 when  *)
(* the byte after ESC [ is not recognized, 4 after ESC [ and one of the    *)
(* digits 0, 1, 2, 4..9 whatever the fourth byte is, 4 when the byte after *)
(* ESC [ 3 is not '~', and 3 when the byte after ESC O is neither H nor F. *)
(* The step that reads its last byte changes neither buffer, cursor nor    *)
(* history, writes nothing, and the next byte is decoded in Normal.        *)
(***************************************************************************)
EscStates == {"EscSeen", "CSISeen", "CSI3", "CSIDigit", "SS3Seen"}

\* q is a whole escape sequence of one of the five ignored kinds
Ignored(q) ==
  /\ Len(q) >= 2 /\ q[1] = esc
  /\ \/ Len(q) = 2 /\ q[2] \notin {chLBracket, chO}
     \/ Len(q) = 3 /\ q[2] = chLBracket
                   /\ q[3] \notin {chA, chB, chC, chD, chH, chF} \cup (48..57)
     \/ Len(q) = 4 /\ q[2] = chLBracket /\ q[3] \in (48..57) \ {ch3}
     \/ Len(q) = 4 /\ q[2] = chLBracket /\ q[3] = ch3 /\ q[4] # chTilde
     \/ Len(q) = 3 /\ q[2] = chO /\ q[3] \notin {chH, chF}

\* the bytes read since ESC, by decoder state
SeqOf(p) ==
  CASE p = "EscSeen" -> {<<esc>>}
    [] p = "CSISeen" -> {<<esc, chLBracket>>}
    [] p = "CSI3" -> {<<esc, chLBracket, ch3>>}
    [] p = "CSIDigit" -> {<<esc, chLBracket, d>> : d \in (48..57) \ {ch3}}
    [] p = "SS3Seen" -> {<<esc, chO>>}

C28_UnrecognizedIgnored ==
  [][/\ pc' \in EscStates => seq' \in SeqOf(pc')
     /\ (pc \in EscStates /\ key' # NoKey /\ Ignored(Append(seq, key'))) =>
          /\ ed' = ed
          /\ out' = <<>>
          /\ pc' = "Normal"
          /\ pending' = NoKey
          /\ UNCHANGED retVars
          /\ seq' = Append(seq, key')
     /\ (pc \in EscStates /\ key' # NoKey /\ ed' = ed /\ pc' = "Normal" /\ ~ed.werr
         /\ out' = <<>>) =>
          Ignored(Append(seq, key'))]_vars

C28_Witness ==
  /\ pc = "Normal" /\ seq = <<esc, chLBracket, 49, chC>> /\ key = chC
  /\ out = <<>> /\ Len(Buffer) = 2 /\ Pos = 1

(***************************************************************************)
(* C29: when the input ends or a read fails after ESC, ESC [, ESC O,       *)
(* ESC [ 3 or ESC [ <digit> has been read and before the sequence is       *)
(* complete, Line() returns the reader's error with the buffer as it is.   *)
(* No step out of a partly read escape sequence confirms a line, and a     *)
(* failed read there is never passed over.                                 *)
(***************************************************************************)
C29_TruncatedEscapeFails ==
  [][(pc \in EscStates) =>
       /\ retErr' # "nil"
       /\ ending' # "Accepted"
       /\ key' = NoKey =>
            /\ pc' = "Idle"
            /\ retErr' \in {"EOF", "read error"}
            /\ ending' = "Error"
            /\ retText' = Buffer
            /\ out' = <<>>
            /\ ed' = ed]_vars

C29_Witness ==
  /\ pc = "Idle" /\ cmd = "ReadFail" /\ seq = <<esc, chLBracket, 49>>
  /\ retErr = "EOF" /\ ending = "Error" /\ retText = <<97>> /\ Buffer = <<97>>

(***************************************************************************)
(* C30: Line() can be called again on the same Editor however the call     *)
(* before ended.  Every call starts with an empty buffer, the cursor and   *)
(* the previous cursor at 0 and no rows in use: its first redraw clears no *)
(* row of the call before and shows the prompt alone.  The history ring is *)
(* the one the call found.                                                 *)
(***************************************************************************)
C30_RepeatedCalls ==
  [][cmd' = "Start" =>
       /\ pc = "Idle"
       /\ ending \in {"None", "Accepted", "Cancelled", "Aborted", "Error"}
       /\ Buffer' = <<>>
       /\ Pos' = 0
       /\ OldPos' = 0
       /\ (0 < TextWidth(Prompt) /\ TextWidth(Prompt) < Cols') => MaxRows' = 0
       /\ Count(out', "down") = 0 /\ Count(out', "killLine") = 0
       /\ Count(out', "up") = 0
       /\ ~ed.werr => Redraws(out') = 1 /\ Shown(out') = <<>>
       /\ Continues
       /\ ed.hcur # 0 => (ed'.hist = ed.hist /\ ed'.hcur = ed.hcur)]_vars

C30_Witness ==
  /\ cmd = "Start" /\ pc = "Normal" /\ nav
  /\ Len(ed.hist) = 3 /\ \E i \in DOMAIN ed.hist : ed.hist[i] = <<97, 97>>
  /\ Buffer = <<>> /\ Pos = 0 /\ OldPos = 0 /\ MaxRows = 0


\* What the terminal sent up to its first 'R' holds no ESC [ row ; col R, or
\* holds one whose numbers do not fit an int.
BadReply ==
  LET rd == ReadString(cfg.reply, chR)
      ms == FindStringSubmatch(rd.res)
  IN  rd.ok /\ (ms = <<>> \/ ~Atoi(ms[2]).ok \/ ~Atoi(ms[3]).ok)

\* C31: when the terminal's reply to the dimension query is not of the form
\* ESC [ row ; col R (nothing matches, or the digits do not convert), the
\* call returns an error instead of faulting and leaves Cols and Rows as
\* they were.
C31_BadReplyIsAnError ==
  (cmd = "AdjustDimensions" /\ ~ed.werr /\ BadReply)
    => /\ pc = "Idle"
       /\ retErr \notin {"nil", "none", "panic"}
       /\ Cols = cfg.cols
       /\ Rows = 0


\* the four ways a Line() call ends
Endings == {"Accepted", "Cancelled", "Aborted", "Error"}

\* C32: on a finite input stream every Line() call terminates, and it ends
\* in exactly one of Accepted, Cancelled, Aborted or Error; the completion
\* loop is no exception.
C32_EveryCallEnds ==
  (pc # "Idle") ~> (pc = "Idle" /\ ending \in Endings)


\* the calls that reach the slice-backed store
StoreCmds == {"HistoryAdd", "HistoryGet", "HistoryPrev", "HistoryNext"}

\* C33: in the slice-backed history store, Get() on a fresh store returns the
\* empty draft line; after every Add, Save, Prev and Next the browse position
\* is within 0 .. len(Lines)-1; and after Add the last slot is the empty
\* draft with the browse position on it.
C33_SliceStoreInRange ==
  [][/\ (cmd' = "HistoryGet" /\ ed.Lines = <<>>)
          => (pc' = "Idle" /\ retText' = <<>>)
     /\ (cmd' \in StoreCmds)
          => (0 <= ed'.HPos /\ ed'.HPos <= Len(ed'.Lines) - 1)
     /\ (cmd' = "HistoryAdd")
          => /\ ed'.Lines[Len(ed'.Lines)] = <<>>
             /\ ed'.HPos = Len(ed'.Lines) - 1]_vars


\* what a redraw o writes before it repaints the prompt
BeforePaint(o) == SubSeq(o, 1, At(o, "prompt") - 1)

\* the steps whose redraw finds MaxRows as the redraw before left it (Line()'s
\* start and Ctrl-U set it to 0 first)
KeepsRows == cmd' \notin {"Start", "Reset"}

\* C35: before it repaints, a redraw emits exactly one clear-line plus
\* move-up pair for every row above row 0 used so far, that is MaxRows pairs,
\* MaxRows being its value before the redraw.
C35_ClearEveryUsedRow ==
  [][(Redraws(out') = 1 /\ KeepsRows) =>
       /\ Count(BeforePaint(out'), "killLine") = MaxRows
       /\ Count(BeforePaint(out'), "up") = MaxRows]_vars


(***************************************************************************)
(* The terminal's cursor row.  Terminals differ in one case: after a       *)
(* character is written in the last column, VT100 and its descendants keep *)
(* the cursor on that row until the next character (deferred), others move *)
(* it to the next row at once.                                             *)
(***************************************************************************)
\* s without its control sequences ESC [ ... m, which print nothing
RECURSIVE Printed(_)
Printed(s) ==
  IF s = <<>> THEN <<>>
  ELSE IF s[1] = esc
    THEN LET m == CHOOSE j \in DOMAIN s :
                    s[j] = 109 /\ \A k \in 1..(j - 1) : s[k] # 109
         IN  Printed(SubSeq(s, m + 1, Len(s)))
  ELSE <<s[1]>> \o Printed(Tail(s))

\* the rows the cursor goes down (up when negative) by the movements of o
RECURSIVE RowsNet(_)
RowsNet(o) ==
  IF o = <<>> THEN 0
  ELSE (CASE o[1].op = "down" -> o[1].n
          [] o[1].op = "up" -> 0 - o[1].n
          [] o[1].op = "newline" -> 1
          [] OTHER -> 0) + RowsNet(Tail(o))

\* the row the cursor is on after w columns were written from column 0 of
\* row 0 on a terminal cols wide
RowAfterText(w, cols, deferred) ==
  IF deferred /\ w > 0 /\ w % cols = 0 THEN (w \div cols) - 1 ELSE w \div cols

\* the row a redraw o leaves the cursor on, counted from the row on which it
\* painted the prompt
CursorRow(o, cols, deferred) ==
  LET w == TextWidth(o[At(o, "prompt")].s) + TextWidth(Shown(o))
           + TextWidth(Printed(o[At(o, "hint")].s))
  IN  RowAfterText(w, cols, deferred)
      + RowsNet(SubSeq(o, At(o, "eraseRight") + 1, Len(o)))

\* C34: in every redraw after the first of a Line() call, the cursor
\* movements written before the repaint bring the cursor from where the
\* redraw before left it to the row the prompt was drawn on, so the prompt
\* is repainted on the same terminal row.  (Stated for two redraws in a
\* row and for either kind of terminal; Ctrl-L, which moves the prompt to
\* the top of the screen, is left out.)
C34_PromptRowKept ==
  [][(/\ Redraws(out) = 1 /\ out[Len(out)] = TFlush
      /\ Redraws(out') = 1 /\ cmd' \notin {"Start", "ClearScreen"}) =>
       \E deferred \in BOOLEAN :
         CursorRow(out, Cols, deferred) + RowsNet(BeforePaint(out')) = 0]_vars


\* the row on which the content painted by the redraw o ends, on a terminal
\* cols wide
ContentRow(o, cols) ==
  (TextWidth(o[At(o, "prompt")].s) + TextWidth(Shown(o))
   + TextWidth(Printed(o[At(o, "hint")].s))) \div cols

\* C36: within one Line() call MaxRows is the largest end-of-content row of
\* the redraws so far: no key makes it decrease before the call returns
\* (Ctrl-U included), and after a redraw it is at least the row that
\* redraw's content ends on.
C36_MaxRowsGrows ==
  [][(pc # "Idle" /\ cmd' # "Start") =>
       /\ MaxRows' >= MaxRows
       /\ Redraws(out') = 1 => MaxRows' >= ContentRow(out', Cols')]_vars


\* C37: a redraw writes the wrap newline exactly on an exact-width wrap: the
\* cursor is at the end of the buffer and prompt and buffer together fill a
\* positive number of complete rows; with an empty prompt and an empty
\* buffer no newline is written.  (Stated for the redraws of the buffer
\* itself, not for those of a previewed candidate.)
C37_WrapNewline ==
  [][(Redraws(out') = 1 /\ pc' # "Complete" /\ Shown(out') = Buffer') =>
       LET w == TextWidth(Prompt) + TextWidth(SubSeq(Buffer', 1, Pos'))
       IN  (Count(out', "newline") = 1)
             <=> (Pos' = Len(Buffer') /\ w > 0 /\ w % Cols' = 0)]_vars


\* C38: the end of the content a redraw works with is at pw + bw + hw, hw
\* being the width of the hint as the screen shows it (its message; the
\* colour and bold sequences around it take no column): from there the
\* redraw moves up to the cursor's row.
C38_HintWidthOnScreen ==
  (Redraws(out) = 1 /\ out[Len(out)] = TFlush /\ out[At(out, "hint")].s # <<>>) =>
    LET drawn == Shown(out)
        pw == TextWidth(Prompt)
        hw == TextWidth(Printed(out[At(out, "hint")].s))
        endRow == (pw + TextWidth(drawn) + hw) \div Cols
        row == (pw + TextWidth(SubSeq(drawn, 1, OldPos))) \div Cols
    IN  0 - RowsNet(Reposition(out)) = endRow - row


\* the step runs completeLine's loop: the trigger key with candidates, or a
\* byte read while a candidate is previewed
InSession ==
  \/ pc = "Complete"
  \/ pc = "Normal" /\ key' = tab /\ completeOn /\ Complete(Buffer) # <<>>

\* C39: a candidate that is only previewed is never committed: when Line()
\* returns out of the completion loop because the read of the next byte or
\* the write of the preview failed, it returns the buffer as it was before
\* the completion, and buffer and cursor are as they were then.
C39_PreviewNotCommitted ==
  [][(InSession /\ pc' = "Idle" /\ ending' = "Error") =>
       LET buf == IF pc = "Complete" THEN sess.buf ELSE Buffer
           cur == IF pc = "Complete" THEN sess.pos ELSE Pos
       IN  /\ retText' = buf
           /\ Buffer' = buf
           /\ Pos' = cur]_vars


\* C40: no key sequence makes an edit command reach a buffer position
\* outside [0, len(buffer)): from every reachable state, the empty buffer at
\* the start of a Line() call included, every command runs to its end
\* without a fault.
C40_NoCommandFaults == pc # "Panicked"

=============================================================================
